---- MODULE Spec2Model ----
(***************************************************************************)
(* Column-mapping and invoice-reconstruction engine of INVOICEFLOW         *)
(* (backend/csv_parser_v2.py): FuzzyMatcher, CSVParserV2; with it the      *)
(* TaxService (backend/tax_service.py), the register and upload handlers   *)
(* of backend/server.py and the column mapping of the CSVParser they use   *)
(* (backend/csv_parser.py).                                                *)
(*                                                                         *)
(* Text is modelled by TLA+ strings (Len, \o and SubSeq act on them the    *)
(* way Python's len, + and slicing do).  Decimal numbers (Python floats)   *)
(* are modelled by exact rationals [n, d].                                 *)
(***************************************************************************)
EXTENDS Integers, Sequences, FiniteSets, TLC

\* ------------------------------------------------------------------ text

Max(a, b) == IF a >= b THEN a ELSE b

Min(a, b) == IF a <= b THEN a ELSE b

UpperAZ == "ABCDEFGHIJKLMNOPQRSTUVWXYZ"

LowerAZ == "abcdefghijklmnopqrstuvwxyz"

Digits == "0123456789"

\* a text as the sequence of its characters (one-character strings)
Chars(s) == SubSeq([i \in 1..Len(s) |-> SubSeq(s, i, i)], 1, Len(s))

RECURSIVE Text(_)
\* the text made of the characters: ''.join(t)
Text(t) ==
    IF t = <<>> THEN ""
    ELSE IF Len(t) = 1 THEN t[1]
    ELSE Text(SubSeq(t, 1, Len(t) \div 2)) \o Text(SubSeq(t, Len(t) \div 2 + 1, Len(t)))

CharSet(t) == {t[i] : i \in 1..Len(t)}

UpperSet == CharSet(Chars(UpperAZ))

WordSet == CharSet(Chars(UpperAZ \o LowerAZ \o Digits \o "_"))

LowerMap == [c \in UpperSet |-> Chars(LowerAZ)[CHOOSE i \in 1..26 : Chars(UpperAZ)[i] = c]]

LowerChar(c) == IF c \in UpperSet THEN LowerMap[c] ELSE c

\* str.lower()
PyLower(t) == SubSeq([i \in 1..Len(t) |-> LowerChar(t[i])], 1, Len(t))

IsSpace(c) == c = " "

\* str.strip()
PyStrip(t) ==
    LET keep == {i \in 1..Len(t) : ~IsSpace(t[i])}
    IN  IF keep = {} THEN <<>>
        ELSE SubSeq(t, CHOOSE i \in keep : \A k \in keep : i <= k,
                       CHOOSE i \in keep : \A k \in keep : k <= i)

\* ------------------------------------------------------- ColumnMappings

INVOICE_NUMBER ==
    <<"invoice #", "invoice number", "invoice no", "invoicenumber", "invoice_number",
      "ref number", "refnumber", "ref #", "ref", "transaction number", "trans #", "num",
      "number", "doc number", "docnumber", "document number", "invoice id", "invoiceid",
      "reference", "invoice reference", "invoice code", "invoice#", "id", "invoice_id",
      "invoicecode", "invoice identifier", "bill number", "inv #", "inv no", "inv number",
      "inv_no", "inv_num">>

INVOICE_DATE ==
    <<"date", "invoice date", "invoicedate", "invoice_date", "trans date",
      "transaction date", "txn date", "txndate", "billing date", "date created",
      "created date", "creation date", "issue date", "sent date", "issued", "issued date",
      "issued on", "inv date", "inv_date", "bill date", "billed date", "billed on">>

DUE_DATE ==
    <<"due date", "duedate", "due_date", "payment due", "paymentdue", "payment due date",
      "terms date", "termsdate", "due by", "payment date", "paymentdate", "pay by date",
      "expiry date", "due on", "payment deadline", "term date">>

CLIENT_NAME ==
    <<"customer", "customer name", "customername", "customer_name", "client", "client name",
      "clientname", "client_name", "bill to", "bill_to", "billto", "bill to name", "sold to",
      "sold_to", "soldto", "contact", "contact name", "customer/contact", "company",
      "company name", "companyname", "organization", "business name", "business", "account",
      "account name", "customer:company", "customer company", "name">>

CLIENT_EMAIL ==
    <<"email", "e-mail", "email address", "emailaddress", "email_address", "customer email",
      "customeremail", "customer_email", "client email", "clientemail", "client_email",
      "contact email", "contactemail", "contact_email", "bill to email", "billing email",
      "invoice email", "primary email", "email 1", "email1", "customer:email">>

CLIENT_ADDRESS ==
    <<"address", "billing address", "billingaddress", "billing_address", "bill to address",
      "customer address", "customeraddress", "street address", "street", "ship to", "shipto",
      "address line 1", "addressline1", "address1", "addr1", "address line 2",
      "addressline2", "address2", "addr2", "bill addr line 1", "billing addr 1", "city",
      "billing city", "customer city", "town", "state", "state/province", "province",
      "region", "billing state", "customer state", "zip", "zip code", "zipcode",
      "postal code", "postalcode", "billing zip", "customer zip">>

DESCRIPTION ==
    <<"description", "item description", "service description", "product/service",
      "product_service", "product or service", "item", "item name", "itemname", "item_name",
      "service", "service name", "servicename", "description & qty", "description/qty",
      "line description", "task", "task name", "activity", "service item", "product",
      "product name", "productname", "product description", "service type", "memo",
      "line item", "lineitem", "line_item", "details", "item details", "notes",
      "description/notes", "sku", "sku description", "class">>

QUANTITY ==
    <<"qty", "quantity", "units", "hours", "amount", "qty sold", "qtysold", "quantity sold",
      "units sold", "billable hours", "billable qty", "item qty", "num", "count", "volume",
      "billing quantity">>

RATE ==
    <<"rate", "price", "unit price", "unitprice", "unit_price", "sales price", "salesprice",
      "sales_price", "unit cost", "unitcost", "unit_cost", "cost per unit", "hourly rate",
      "hourlyrate", "hourly_rate", "billing rate", "price each", "priceeach", "price_each",
      "each", "cost", "rate/price", "rate price", "charge", "fee">>

AMOUNT ==
    <<"amount", "line amount", "lineamount", "line_amount", "line total", "linetotal",
      "line_total", "extended amount", "extendedamount", "extended_amount",
      "line amount tax", "line amount no tax", "total", "subtotal", "sum", "price", "charge",
      "item total", "net amount", "line price">>

SUBTOTAL ==
    <<"subtotal", "sub total", "sub-total", "sub_total", "net amount", "netamount",
      "net_amount", "total before tax", "amount before tax", "taxable amount",
      "taxableamount", "pre-tax total", "item total", "items total", "line items total">>

TAX_RATE ==
    <<"tax rate", "taxrate", "tax_rate", "tax %", "tax percent", "tax percentage",
      "sales tax rate", "salestaxrate", "gst rate", "vat rate", "tax code rate",
      "rate of tax", "tax rate %", "rate %">>

TAX_AMOUNT ==
    <<"tax", "tax amount", "taxamount", "tax_amount", "sales tax", "salestax", "sales_tax",
      "gst", "gst amount", "vat", "vat amount", "tax total", "taxtotal", "total tax",
      "tax charged", "tax applied", "tax value">>

TOTAL ==
    <<"total", "grand total", "grandtotal", "grand_total", "invoice total", "invoicetotal",
      "invoice_total", "amount due", "amountdue", "amount_due", "balance", "balance due",
      "balancedue", "total amount", "totalamount", "final total", "amount owing",
      "total with tax", "final amount">>

TERMS ==
    <<"terms", "payment terms", "paymentterms", "payment_terms", "term", "due terms",
      "invoice terms", "billing terms", "net terms", "due net", "payment method">>

NOTES ==
    <<"notes", "memo", "message", "customer message", "customermessage", "comments",
      "description", "remarks", "note to customer", "invoice message", "invoice note",
      "additional info", "special instructions", "instructions">>

CURRENCY ==
    <<"currency", "currency code", "currencycode", "curr", "transaction currency",
      "billing currency", "home currency", "foreign currency">>

STATUS ==
    <<"status", "invoice status", "payment status", "paymentstatus", "paid status", "state",
      "condition", "paid/unpaid", "open/closed", "sent/unsent">>

PO_NUMBER ==
    <<"po #", "po number", "ponumber", "po_number", "purchase order", "purchase order #",
      "p.o. number", "po", "purchase order number", "client po">>

\* the standard fields in the order get_all_mappings registers them
Fields ==
    <<"invoice_number", "invoice_date", "due_date", "client_name", "client_email",
      "client_address", "description", "quantity", "rate", "amount", "subtotal", "tax_rate",
      "tax_amount", "total", "terms", "notes", "currency", "status", "po_number">>

get_all_mappings ==
    [invoice_number |-> INVOICE_NUMBER, invoice_date |-> INVOICE_DATE,
     due_date |-> DUE_DATE, client_name |-> CLIENT_NAME, client_email |-> CLIENT_EMAIL,
     client_address |-> CLIENT_ADDRESS, description |-> DESCRIPTION,
     quantity |-> QUANTITY, rate |-> RATE, amount |-> AMOUNT, subtotal |-> SUBTOTAL,
     tax_rate |-> TAX_RATE, tax_amount |-> TAX_AMOUNT, total |-> TOTAL, terms |-> TERMS,
     notes |-> NOTES, currency |-> CURRENCY, status |-> STATUS, po_number |-> PO_NUMBER]

\* ------------------------------------------------ fuzz (string similarity)

\* round(100 * 2m / t) the way Python rounds (halves go to the even integer)
Percent(m, t) ==
    LET q == (200 * m) \div t
        r == (200 * m) % t
    IN  IF 2 * r < t THEN q
        ELSE IF 2 * r > t THEN q + 1
        ELSE IF q % 2 = 0 THEN q ELSE q + 1

SetMax(S) == CHOOSE m \in S : \A k \in S : k <= m

\* one row of the longest-common-subsequence table, made from the row before
\* it: entry j + 1 is the LCS length of the prefix of a that ends in ca and the
\* first j characters of b, which is the entry above it unless ca pairs with a
\* character of b among those j
LcsRow(prev, ca, b) ==
    SubSeq([j \in 1..(Len(b) + 1) |->
               SetMax({prev[j]} \cup {prev[k] + 1 : k \in {h \in 1..(j - 1) : b[h] = ca}})],
           1, Len(b) + 1)

RECURSIVE LcsRows(_, _, _, _, _)
\* the row of the table after the characters number lo to hi of a, from the
\* row before them: the first half of the characters, then the second half.
\* Once a row ends in Len(b) every later row does.
LcsRows(a, b, lo, hi, prev) ==
    IF lo = hi THEN LcsRow(prev, a[lo], b)
    ELSE LET mid == (lo + hi) \div 2
             half == LcsRows(a, b, lo, mid, prev)
         IN  IF half[Len(b) + 1] = Len(b) THEN half
             ELSE LcsRows(a, b, mid + 1, hi, half)

\* number of characters two texts share in order: with insertions and
\* deletions only, the edit distance is Len(a) + Len(b) - 2 * Lcs(a, b)
Lcs(a, b) ==
    LET zeros(n) == SubSeq([j \in 1..(n + 1) |-> 0], 1, n + 1)
    IN  IF Len(a) = 0 \/ Len(b) = 0 THEN 0
        ELSE IF Len(a) <= Len(b) THEN LcsRows(a, b, 1, Len(a), zeros(Len(b)))[Len(b) + 1]
        ELSE LcsRows(b, a, 1, Len(b), zeros(Len(a)))[Len(a) + 1]

\* fuzz.ratio: the Levenshtein similarity of two texts, 0..100
fuzz_ratio(s1, s2) ==
    IF s1 = s2 THEN 100
    ELSE IF Len(s1) = 0 \/ Len(s2) = 0 THEN 0
    ELSE Percent(Lcs(s1, s2), Len(s1) + Len(s2))

\* fuzz.partial_ratio: the best similarity of the shorter text against an
\* equally long window of the longer one
fuzz_partial_ratio(s1, s2) ==
    IF s1 = s2 THEN 100
    ELSE IF Len(s1) = 0 \/ Len(s2) = 0 THEN 0
    ELSE LET shorter == IF Len(s1) <= Len(s2) THEN s1 ELSE s2
             longer == IF Len(s1) <= Len(s2) THEN s2 ELSE s1
             n == Len(shorter)
         IN  Percent(SetMax({Lcs(shorter, SubSeq(longer, k, k + n - 1)) :
                                k \in 1..(Len(longer) - n + 1)}), 2 * n)

\* utils.full_process: non-word characters to spaces, lower case, stripped
full_process(t) ==
    PyStrip(PyLower(SubSeq([i \in 1..Len(t) |-> IF t[i] \in WordSet THEN t[i] ELSE " "],
                           1, Len(t))))

\* str.split(): the maximal runs of non-space characters, in order
PySplit(t) ==
    LET starts == {i \in 1..Len(t) : ~IsSpace(t[i]) /\ (i = 1 \/ IsSpace(t[i - 1]))}
        start(k) == CHOOSE i \in starts : Cardinality({h \in starts : h < i}) = k - 1
        end(i) == CHOOSE j \in i..Len(t) :
                      /\ \A h \in i..j : ~IsSpace(t[h])
                      /\ (j = Len(t) \/ IsSpace(t[j + 1]))
    IN  SubSeq([k \in 1..Cardinality(starts) |-> SubSeq(t, start(k), end(start(k)))],
               1, Cardinality(starts))

\* the printable ASCII characters (but the grave accent) in code-point order
Ascii ==
    " !\"#$%&'()*+,-./" \o Digits \o ":;<=>?@" \o UpperAZ \o "[\\]^_" \o LowerAZ \o "{|}~"

CharOrder == Chars(Ascii)

CharRank == [c \in CharSet(CharOrder) |-> CHOOSE i \in 1..Len(CharOrder) : CharOrder[i] = c]

\* a < b for Python strings (of ASCII characters)
StrLess(a, b) ==
    \E k \in 1..(Len(b)) :
        /\ \A i \in 1..(k - 1) : i <= Len(a) /\ a[i] = b[i]
        /\ (k > Len(a) \/ CharRank[a[k]] < CharRank[b[k]])

RECURSIVE InsertSorted(_, _)
InsertSorted(w, ws) ==
    IF ws = <<>> THEN <<w>>
    ELSE IF StrLess(Head(ws), w) THEN <<Head(ws)>> \o InsertSorted(w, Tail(ws))
    ELSE <<w>> \o ws

RECURSIVE SortedWords(_)
SortedWords(ws) == IF ws = <<>> THEN <<>> ELSE InsertSorted(Head(ws), SortedWords(Tail(ws)))

RECURSIVE JoinWords(_)
JoinWords(ws) ==
    IF ws = <<>> THEN <<>>
    ELSE IF Len(ws) = 1 THEN Head(ws)
    ELSE Head(ws) \o <<" ">> \o JoinWords(Tail(ws))

process_and_sort(t) == JoinWords(SortedWords(PySplit(full_process(t))))

\* fuzz.token_sort_ratio: fuzz.ratio of the two texts with their words sorted
fuzz_token_sort_ratio(s1, s2) == fuzz_ratio(process_and_sort(s1), process_and_sort(s2))

\* every entry of the schema
Vocabulary ==
    UNION {{get_all_mappings[f][i] : i \in 1..Len(get_all_mappings[f])} :
              f \in DOMAIN get_all_mappings}

\* target.lower() for the entries of the schema, computed once
LowerEntry == [t \in Vocabulary |-> PyLower(Chars(t))] @@ <<>>

\* process_and_sort(target.lower()) for the entries of the schema, computed once
SortedEntry == [t \in Vocabulary |-> process_and_sort(LowerEntry[t])] @@ <<>>

\* target.lower()
target_lower(target) ==
    IF target \in DOMAIN LowerEntry THEN LowerEntry[target] ELSE PyLower(Chars(target))

\* fuzz.token_sort_ratio(col_lower, target.lower())
token_sort_score(col_lower, target) ==
    IF target \in DOMAIN SortedEntry
    THEN fuzz_ratio(process_and_sort(col_lower), SortedEntry[target])
    ELSE fuzz_token_sort_ratio(col_lower, PyLower(Chars(target)))

\* ---------------------------------------------------------- FuzzyMatcher

NoMatch == [found |-> FALSE, target |-> "", score |-> 0]

\* the loop the three strategy matchers share: the first target whose score is
\* the highest among those that reach the threshold
BestTarget(scores, targets, threshold) ==
    IF \E i \in 1..Len(targets) : scores[i] > 0 /\ scores[i] >= threshold
    THEN LET k == CHOOSE i \in 1..Len(targets) :
                      /\ scores[i] > 0 /\ scores[i] >= threshold
                      /\ \A j \in 1..Len(targets) : scores[j] <= scores[i]
                      /\ \A j \in 1..(i - 1) : scores[j] < scores[i]
         IN  [found |-> TRUE, target |-> targets[k], score |-> scores[k]]
    ELSE NoMatch

levenshtein_match(col_name, targets, threshold) ==
    LET col_lower == PyStrip(PyLower(Chars(col_name)))
        scores == SubSeq([i \in 1..Len(targets) |->
                             fuzz_ratio(col_lower, target_lower(targets[i]))],
                         1, Len(targets))
    IN  BestTarget(scores, targets, threshold)

partial_match(col_name, targets, threshold) ==
    LET col_lower == PyStrip(PyLower(Chars(col_name)))
        scores == SubSeq([i \in 1..Len(targets) |->
                             fuzz_partial_ratio(col_lower, target_lower(targets[i]))],
                         1, Len(targets))
    IN  BestTarget(scores, targets, threshold)

token_sort_match(col_name, targets, threshold) ==
    LET col_lower == PyStrip(PyLower(Chars(col_name)))
        scores == SubSeq([i \in 1..Len(targets) |->
                             token_sort_score(col_lower, targets[i])],
                         1, Len(targets))
    IN  BestTarget(scores, targets, threshold)

\* the last of the highest
LastMax(strategies) ==
    LET i == CHOOSE k \in 1..Len(strategies) :
                 /\ \A j \in 1..Len(strategies) : strategies[j].score <= strategies[k].score
                 /\ \A j \in (k + 1)..Len(strategies) : strategies[j].score < strategies[k].score
    IN  strategies[i]

\* max(strategies, key = score): the first of the highest
FirstMax(strategies) ==
    LET i == CHOOSE k \in 1..Len(strategies) :
                 /\ \A j \in 1..Len(strategies) : strategies[j].score <= strategies[k].score
                 /\ \A j \in 1..(k - 1) : strategies[j].score < strategies[k].score
    IN  strategies[i]

\* best_match without the loop for the exact entry, the partial match tried
\* first
best_match_partial_first(col_name, targets) ==
    LET lev == levenshtein_match(col_name, targets, 70)
        par == partial_match(col_name, targets, 80)
        tok == token_sort_match(col_name, targets, 75)
        best == FirstMax(<<par, lev, tok>>)
    IN  IF best.score >= 70 THEN best ELSE NoMatch

\* return best if best[1] >= 70 else (None, 0)
at_least_70(best) == IF best.score >= 70 THEN best ELSE NoMatch

\* FuzzyMatcher.best_match(col_name, targets)
best_match(col_name, targets) ==
    LET col_lower == PyStrip(PyLower(Chars(col_name)))
        exact == {i \in 1..Len(targets) : col_lower = target_lower(targets[i])}
    IN  IF exact # {}
        THEN [found |-> TRUE, target |-> targets[CHOOSE i \in exact : \A k \in exact : i <= k],
              score |-> 100]
        ELSE at_least_70(FirstMax(<<levenshtein_match(col_name, targets, 70),
                                    partial_match(col_name, targets, 80),
                                    token_sort_match(col_name, targets, 75)>>))

\* ------------------------------------------------------------ CSVParserV2

\* the column headers that occur in the tables and header lists checked here
HeaderPool ==
    {"Invoice #", "Date", "Customer", "Description", "Qty", "Rate", "Amount", "Tax Rate",
     "Sales Tax", "col1", "col2"}

FieldSet == DOMAIN get_all_mappings

\* self.fuzzy_matcher.best_match(col, variations) for every header of the pool
\* and every standard field, computed once
ScoreTable ==
    [f \in FieldSet |-> [c \in HeaderPool |-> best_match(c, get_all_mappings[f])] @@ <<>>]
        @@ <<>>

\* match_result of best_match(col, variations) for the field's variations
match_result(col, standard_field) == ScoreTable[standard_field][col]

\* the inner loop without its test of used_columns
best_col_index_reusing(df_columns, standard_field, used) ==
    LET score == ScoreTable[standard_field]
        free == {i \in 1..Len(df_columns) : score[df_columns[i]].score > 0}
    IN  IF free = {} THEN 0
        ELSE CHOOSE i \in free :
                 \A j \in free :
                     /\ score[df_columns[j]].score <= score[df_columns[i]].score
                     /\ j < i => score[df_columns[j]].score < score[df_columns[i]].score

\* the inner loop with a later column replacing best_col on an equal score
best_col_index_last(df_columns, standard_field, used) ==
    LET score == ScoreTable[standard_field]
        free == {i \in 1..Len(df_columns) :
                    df_columns[i] \notin used /\ score[df_columns[i]].score > 0}
    IN  IF free = {} THEN 0
        ELSE CHOOSE i \in free :
                 \A j \in free :
                     /\ score[df_columns[j]].score <= score[df_columns[i]].score
                     /\ j > i => score[df_columns[j]].score < score[df_columns[i]].score

\* the inner loop over the columns with the scores best_match gives them for
\* the field: the first of the columns not used that score highest, or 0
first_best(df_columns, used, score) ==
    LET free == {i \in 1..Len(df_columns) :
                    df_columns[i] \notin used /\ score[df_columns[i]].score > 0}
    IN  IF free = {} THEN 0
        ELSE CHOOSE i \in free :
                 \A j \in free :
                     /\ score[df_columns[j]].score <= score[df_columns[i]].score
                     /\ j < i => score[df_columns[j]].score < score[df_columns[i]].score

\* the inner loop of detect_column_mapping: the index of best_col in df_columns,
\* or 0 when no column that is not used scores above 0.  A later column
\* replaces best_col only with a strictly greater score.
best_col_index(df_columns, standard_field, used) ==
    first_best(df_columns, used, ScoreTable[standard_field])

\* the end of one pass of the outer loop: best_col is assigned with its
\* confidence best_score when there is one and the score reaches 70
assign(standard_field, st, best_col, best_score) ==
    IF best_col # "" /\ best_score >= 70
    THEN [mapping |-> st.mapping @@
                      (standard_field :> [csv_column |-> best_col, confidence |-> best_score]),
          used_columns |-> st.used_columns \cup {best_col}]
    ELSE st

\* the end of one pass of the outer loop for the column number i that the
\* inner loop has left in best_col, 0 standing for no column
assign_column(df_columns, standard_field, st, i) ==
    IF i = 0 THEN st
    ELSE assign(standard_field, st, df_columns[i],
                match_result(df_columns[i], standard_field).score)

\* one pass of the outer loop: the mapping and the used columns after
\* standard_field has been tried
map_field(df_columns, standard_field, st) ==
    assign_column(df_columns, standard_field, st,
                  best_col_index(df_columns, standard_field, st.used_columns))

RECURSIVE map_fields(_, _, _, _)
\* the outer loop over self.mappings.items() for the fields number lo to hi:
\* the first half of them, then the second half from what the first half left
map_fields(df_columns, lo, hi, st) ==
    IF lo = hi THEN map_field(df_columns, Fields[lo], st)
    ELSE LET mid == (lo + hi) \div 2
             mapped == map_fields(df_columns, lo, mid, st)
         IN  IF mapped.used_columns = st.used_columns
             THEN map_fields(df_columns, mid + 1, hi, st)
             ELSE map_fields(df_columns, mid + 1, hi, mapped)

\* used_columns kept from the call before
keep_used_columns(self) == self.used_columns

\* self.used_columns = set(), the first thing detect_column_mapping does
reset_used_columns(self) == {}

\* detect_column_mapping(df_columns) of the parser self: the mapping it
\* returns and the used_columns it leaves in the parser
detect_column_mapping(self, df_columns) ==
    map_fields(df_columns, 1, Len(Fields),
               [mapping |-> <<>>, used_columns |-> reset_used_columns(self)])

\* -------------------------------------------------------------- values

\* Optional values: None is the empty sequence, a value v is <<v>>
None == <<>>

Some(v) == <<v>>

RECURSIVE Gcd(_, _)
Gcd(a, b) == IF b = 0 THEN a ELSE Gcd(b, a % b)

Abs(x) == IF x < 0 THEN 0 - x ELSE x

\* a float is modelled by the exact fraction n/d in lowest terms, d > 0
Frac(n, d) ==
    LET g == Gcd(Abs(n), Abs(d))
    IN  IF d < 0 THEN [n |-> (0 - n) \div g, d |-> (0 - d) \div g]
        ELSE [n |-> n \div g, d |-> d \div g]

Float(k) == Frac(k, 1)

Plus(a, b) == Frac(a.n * b.d + b.n * a.d, a.d * b.d)

Times(a, b) == Frac(a.n * b.n, a.d * b.d)

Over(a, b) == Frac(a.n * b.d, a.d * b.n)

IsZero(a) == a.n = 0

Positive(a) == a.n > 0

\* the cells of a table as pandas hands them over: NaN for an empty cell, a
\* str, or a float of a numeric column
NaN == [kind |-> "nan", text |-> "", num |-> Float(0)]

Txt(s) == [kind |-> "str", text |-> s, num |-> Float(0)]

Num(n, d) == [kind |-> "num", text |-> "", num |-> Frac(n, d)]

\* pd.isna(value)
isna(value) == value.kind = "nan"

\* the truth value of a cell: a str is true unless empty, a float unless 0.0
\* (NaN is true, but every caller has tested isna before)
truthy(value) ==
    IF value.kind = "str" THEN value.text # ""
    ELSE IF value.kind = "num" THEN ~IsZero(value.num) ELSE TRUE

\* str.strip() of a str
strip(s) ==
    LET keep == {i \in 1..Len(s) : SubSeq(s, i, i) # " "}
    IN  IF keep = {} THEN ""
        ELSE SubSeq(s, CHOOSE i \in keep : \A k \in keep : i <= k,
                       CHOOSE i \in keep : \A k \in keep : k <= i)

DigitValue(c) == (CHOOSE i \in 1..10 : SubSeq(Digits, i, i) = c) - 1

IsDigit(c) == \E i \in 1..10 : SubSeq(Digits, i, i) = c

RECURSIVE Pow10(_)
Pow10(k) == IF k = 0 THEN 1 ELSE 10 * Pow10(k - 1)

RECURSIVE DigitsValue(_)
\* int(s) for a str of digits; 0 for the empty str
DigitsValue(s) ==
    IF Len(s) = 0 THEN 0
    ELSE 10 * DigitsValue(SubSeq(s, 1, Len(s) - 1)) + DigitValue(SubSeq(s, Len(s), Len(s)))

AllDigits(s) == \A i \in 1..Len(s) : IsDigit(SubSeq(s, i, i))

\* the least k with d dividing 10^k (d has no prime factor but 2 and 5)
DecimalPlaces(d) == CHOOSE k \in 0..9 : Pow10(k) % d = 0 /\ \A j \in 0..(k - 1) : Pow10(j) % d # 0

RECURSIVE ZeroPad(_, _)
\* the digits of k, with zeros in front up to the given width
ZeroPad(k, width) == IF Len(ToString(k)) >= width THEN ToString(k) ELSE "0" \o ZeroPad(k, width - 1)

\* str(x) of a float with a finite decimal expansion: 100.0, -12.5
FloatStr(x) ==
    LET k == DecimalPlaces(x.d)
        scaled == Abs(x.n) * (Pow10(k) \div x.d)
        sign == IF x.n < 0 THEN "-" ELSE ""
    IN  IF k = 0 THEN sign \o ToString(Abs(x.n)) \o ".0"
        ELSE sign \o ToString(scaled \div Pow10(k)) \o "." \o ZeroPad(scaled % Pow10(k), k)

\* str(value) of a cell
str(value) ==
    IF value.kind = "nan" THEN "nan"
    ELSE IF value.kind = "str" THEN value.text ELSE FloatStr(value.num)

\* ---------------------------------------------------- CSVParserV2.parse_date

\* datetime(year, month, day) at midnight plus the seconds given
datetime(year, month, day, second) ==
    [year |-> year, month |-> month, day |-> day, second |-> second]

MonthNames ==
    <<"january", "february", "march", "april", "may", "june", "july", "august",
      "september", "october", "november", "december">>

\* the formats parse_date tries, in its order
DateFormats ==
    <<"%m/%d/%Y", "%m/%d/%y", "%d/%m/%Y", "%d/%m/%y", "%Y-%m-%d", "%Y/%m/%d", "%m-%d-%Y",
      "%d-%m-%Y", "%B %d, %Y", "%b %d, %Y", "%d %B %Y", "%d %b %Y", "%Y%m%d">>

FormatChars == [k \in 1..Len(DateFormats) |-> Chars(DateFormats[k])] @@ <<>>

MonthChars == [k \in 1..12 |-> Chars(MonthNames[k])] @@ <<>>

IsLeap(year) == year % 4 = 0 /\ (year % 100 # 0 \/ year % 400 = 0)

DaysIn(year, month) ==
    IF month = 2 THEN (IF IsLeap(year) THEN 29 ELSE 28)
    ELSE IF month \in {4, 6, 9, 11} THEN 30 ELSE 31

NoDate == [ok |-> FALSE, year |-> 1900, month |-> 1, day |-> 1]

RECURSIVE CharsValue(_)
\* int() of a sequence of digits
CharsValue(t) ==
    IF t = <<>> THEN 0 ELSE 10 * CharsValue(SubSeq(t, 1, Len(t) - 1)) + DigitValue(t[Len(t)])

\* the number written by the w characters of t from position i on, or -1
NumberAt(t, i, w) ==
    IF i + w - 1 > Len(t) \/ \E k \in i..(i + w - 1) : ~IsDigit(t[k]) THEN 0 - 1
    ELSE CharsValue(SubSeq(t, i, i + w - 1))

\* the month whose name (whole, or its first three letters) stands at position
\* i of t, whatever the case; 0 when there is none
MonthAt(t, i, whole) ==
    LET name(k) == IF whole THEN MonthChars[k] ELSE SubSeq(MonthChars[k], 1, 3)
        hits == {k \in 1..12 :
                    /\ i + Len(name(k)) - 1 <= Len(t)
                    /\ PyLower(SubSeq(t, i, i + Len(name(k)) - 1)) = name(k)}
    IN  IF hits = {} THEN 0 ELSE CHOOSE k \in hits : TRUE

RECURSIVE strptime_from(_, _, _, _, _)
\* datetime.strptime: the text t from position i on against the format fmt from
\* position j on.  %m and %d take two digits before they try one, %y takes two,
\* %Y four; a blank of the format takes one blank of the text or more; the
\* whole text has to be used up.
strptime_from(t, i, fmt, j, got) ==
    IF j > Len(fmt) THEN (IF i > Len(t) THEN got ELSE NoDate)
    ELSE IF fmt[j] = "%"
    THEN LET d == fmt[j + 1]
             take(w) ==
                 LET v == NumberAt(t, i, w)
                     fits == IF d = "m" THEN v >= 1 /\ v <= 12 /\ (w = 1 => v <= 9)
                             ELSE IF d = "d" THEN v >= 1 /\ v <= 31 /\ (w = 1 => v <= 9)
                             ELSE v >= 0
                     year == IF d = "Y" THEN v ELSE IF v <= 68 THEN 2000 + v ELSE 1900 + v
                 IN  IF ~fits THEN NoDate
                     ELSE strptime_from(t, i + w, fmt, j + 2,
                                        IF d = "m" THEN [got EXCEPT !.month = v]
                                        ELSE IF d = "d" THEN [got EXCEPT !.day = v]
                                        ELSE [got EXCEPT !.year = year])
         IN  IF d \in {"B", "b"}
             THEN LET k == MonthAt(t, i, d = "B")
                  IN  IF k = 0 THEN NoDate
                      ELSE strptime_from(t, i + (IF d = "B" THEN Len(MonthChars[k]) ELSE 3),
                                         fmt, j + 2, [got EXCEPT !.month = k])
             ELSE IF d = "Y" THEN take(4)
             ELSE IF d = "y" THEN take(2)
             ELSE IF take(2).ok THEN take(2) ELSE take(1)
    ELSE IF i > Len(t) THEN NoDate
    ELSE IF fmt[j] = " "
    THEN LET blanks == {n \in i..Len(t) : \A k \in i..n : t[k] = " "}
         IN  IF blanks = {} THEN NoDate
             ELSE strptime_from(t, 1 + CHOOSE n \in blanks : \A k \in blanks : k <= n,
                                fmt, j + 1, got)
    ELSE IF t[i] = fmt[j] THEN strptime_from(t, i + 1, fmt, j + 1, got)
    ELSE NoDate

\* the date read from the text when its month has the day, NoDate otherwise
existing_day(got) ==
    IF got.ok /\ got.day <= DaysIn(got.year, got.month) THEN got ELSE NoDate

\* datetime.strptime(date_str, fmt): a ValueError (ok = FALSE) when the text
\* does not fit or names a day its month does not have
strptime(date_str, fmt) ==
    existing_day(strptime_from(date_str, 1, fmt, 1, [NoDate EXCEPT !.ok = TRUE]))

\* pd.to_datetime(date_str), the fallback of parse_date.  The texts that get
\* this far in the tables checked here (a word, a text with an underscore) make
\* it raise, which parse_date turns into None.
to_datetime(date_str) == None

RECURSIVE try_format(_, _)
\* one pass of the loop over the formats: the date that strptime has read with
\* the format number k is returned, and its ValueError leads to the next format
return_or_continue(date_str, k, got) ==
    IF got.ok THEN Some(datetime(got.year, got.month, got.day, 0))
    ELSE try_format(date_str, k + 1)

\* the loop over the formats from the format number k on, and the fallback
\* behind the loop
try_format(date_str, k) ==
    IF k > Len(DateFormats) THEN to_datetime(date_str)
    ELSE return_or_continue(date_str, k, strptime(date_str, FormatChars[k]))

\* the loop over the formats: the date of the first format the text fits
try_formats(date_str) == try_format(date_str, 1)

\* parse_date(date_value): the datetime, or None
parse_date(date_value) ==
    IF isna(date_value) THEN None
    ELSE LET date_str == strip(str(date_value))
         IN  IF date_str = "" THEN None ELSE try_formats(Chars(date_str))

\* -------------------------------------------------- CSVParserV2.parse_number

\* the characters re.sub(r'[$£€¥₹,\s]', '', cleaned) takes out
Formatting == {"$", "£", "€", "¥", "₹", ",", " "}

\* s with its formatting characters left in
keep_formatting(s, chars) == s

\* s without the characters of the set
remove(s, chars) == Text(SelectSeq(Chars(s), LAMBDA c : c \notin chars))

\* s.replace(old, new) for a one-character old
replace(s, old, new) ==
    Text(SubSeq([i \in 1..Len(s) |-> IF SubSeq(s, i, i) = old THEN new ELSE SubSeq(s, i, i)],
                1, Len(s)))

\* c in s
contains(s, c) == \E i \in 1..Len(s) : SubSeq(s, i, i) = c

\* s.rindex(c), counted from 1
rindex(s, c) ==
    CHOOSE i \in 1..Len(s) :
        SubSeq(s, i, i) = c /\ \A k \in (i + 1)..Len(s) : SubSeq(s, k, k) # c

\* float(s) for a decimal numeral with an optional sign; ok = FALSE is the
\* ValueError of any other text (exponents, inf and nan are not written in
\* the tables checked here)
float(s) ==
    LET signed == Len(s) > 0 /\ SubSeq(s, 1, 1) \in {"+", "-"}
        body == IF signed THEN SubSeq(s, 2, Len(s)) ELSE s
        dots == {i \in 1..Len(body) : SubSeq(body, i, i) = "."}
        dot == IF dots = {} THEN Len(body) + 1 ELSE CHOOSE i \in dots : TRUE
        whole == SubSeq(body, 1, dot - 1)
        frac == SubSeq(body, dot + 1, Len(body))
        ok == /\ Cardinality(dots) <= 1
              /\ AllDigits(whole) /\ AllDigits(frac)
              /\ Len(whole) + Len(frac) > 0
        size == Frac(DigitsValue(whole \o frac), Pow10(Len(frac)))
    IN  IF ~ok THEN [ok |-> FALSE, value |-> Float(0)]
        ELSE [ok |-> TRUE,
              value |-> IF signed /\ SubSeq(s, 1, 1) = "-" THEN Frac(0 - size.n, size.d)
                        ELSE size]

\* the text with a minus for the parentheses around it
negative_in_parentheses(plain) ==
    IF Len(plain) > 0 /\ SubSeq(plain, 1, 1) = "("
       /\ SubSeq(plain, Len(plain), Len(plain)) = ")"
    THEN "-" \o SubSeq(plain, 2, Len(plain) - 1)
    ELSE plain

\* the text after the branches that tell the decimal separator from the
\* thousands separator
european_or_us(signed) ==
    IF contains(signed, ",") /\ contains(signed, ".")
    THEN (IF rindex(signed, ",") > rindex(signed, ".")
          THEN replace(replace(signed, ".", ""), ",", ".")
          ELSE replace(signed, ",", ""))
    ELSE IF contains(signed, ",")
    THEN (IF Len(signed) - rindex(signed, ",") = 2
          THEN replace(signed, ",", ".")
          ELSE replace(signed, ",", ""))
    ELSE signed

\* the value of the try block, and the 0.0 of its except clause
value_or_zero(converted) == IF converted.ok THEN converted.value ELSE Float(0)

\* return float(cleaned) if cleaned else 0.0, with its except clause
float_or_zero(cleaned) == IF cleaned = "" THEN Float(0) ELSE value_or_zero(float(cleaned))

\* parse_number(num_value)
parse_number(num_value) ==
    IF isna(num_value) THEN Float(0)
    ELSE IF num_value.kind = "num" THEN num_value.num
    ELSE float_or_zero(european_or_us(negative_in_parentheses(
             remove(strip(str(num_value)), Formatting))))

\* ------------------------------------------------ CSVParserV2.split_invoices

\* A DataFrame is [columns, rows]: the header values in order, and the rows in
\* order, each [label, cells] with its index label and one cell per column.

\* the position of the column col
column_index(df, col) == CHOOSE i \in 1..Len(df.columns) : df.columns[i] = Txt(col)

\* row[col]
row_get(df, row, col) == row.cells[column_index(df, col)]

\* df with a '_composite_key' made of the invoice number alone
with_number_key(df, invoice_col, date_col) ==
    [columns |-> Append(df.columns, Txt("_composite_key")),
     rows |-> SubSeq([k \in 1..Len(df.rows) |->
                         [label |-> df.rows[k].label,
                          cells |-> Append(df.rows[k].cells,
                                           row_get(df, df.rows[k], invoice_col))]],
                     1, Len(df.rows))]

\* df with the column '_composite_key' that split_invoices adds to it
with_composite_key(df, invoice_col, date_col) ==
    LET composite_key(row) ==
            IF ~isna(row_get(df, row, invoice_col))
            THEN Txt(str(row_get(df, row, invoice_col)) \o "_" \o str(row_get(df, row, date_col)))
            ELSE NaN
    IN  [columns |-> Append(df.columns, Txt("_composite_key")),
         rows |-> SubSeq([k \in 1..Len(df.rows) |->
                             [label |-> df.rows[k].label,
                              cells |-> Append(df.rows[k].cells, composite_key(df.rows[k]))]],
                         1, Len(df.rows))]

\* the order groupby puts the keys of a column of str in
key_less(a, b) == StrLess(Chars(str(a)), Chars(str(b)))

RECURSIVE sorted_keys(_)
sorted_keys(keys) ==
    IF keys = {} THEN <<>>
    ELSE LET least == CHOOSE k \in keys : \A o \in keys : o = k \/ key_less(k, o)
         IN  <<least>> \o sorted_keys(keys \ {least})

\* the groups of the keys, in the order of the keys
groups_of(df, group_col, keys) ==
    SubSeq([g \in 1..Len(keys) |->
               [key |-> keys[g],
                group |-> [columns |-> df.columns,
                           rows |-> SelectSeq(df.rows,
                                              LAMBDA row : row_get(df, row, group_col) = keys[g])]]],
           1, Len(keys))

\* df.groupby(group_col): the keys in sorted order, NaN left out, each with
\* the rows that carry it, in the order of the table
groupby(df, group_col) ==
    groups_of(df, group_col,
              sorted_keys({row_get(df, df.rows[k], group_col) : k \in 1..Len(df.rows)}
                          \ {NaN}))

\* the groups that are returned, and the table with its key column
kept_groups(df, groups) ==
    [df |-> df,
     invoice_groups |->
         SubSeq([g \in 1..Len(groups) |-> groups[g].group], 1, Len(groups))]

\* the loop over df.groupby(group_col) of the table with its key column: the
\* groups whose key is not blank are kept
split_by(df, group_col) ==
    kept_groups(df, SelectSeq(groupby(df, group_col), LAMBDA g : strip(str(g.key)) # ""))

\* split_invoices(df, mapping): the groups it returns, and df as it leaves it
split_invoices(df, mapping) ==
    IF "invoice_number" \notin DOMAIN mapping
    THEN [df |-> df, invoice_groups |-> <<df>>]
    ELSE LET invoice_col == mapping["invoice_number"].csv_column
             composite == "invoice_date" \in DOMAIN mapping
         IN  split_by(IF composite
                      THEN with_composite_key(df, invoice_col, mapping["invoice_date"].csv_column)
                      ELSE df,
                      IF composite THEN "_composite_key" ELSE invoice_col)

\* ---------------------------------------------- CSVParserV2.parse_invoice_group

\* _get_field(row, mapping, field, default): a stripped str, or the default
get_field(df, row, mapping, field, default) ==
    IF field \notin DOMAIN mapping THEN default
    ELSE LET value == row_get(df, row, mapping[field].csv_column)
         IN  IF isna(value) THEN default
             ELSE IF truthy(value) THEN Some(strip(str(value))) ELSE default

\* return parsed if parsed else default
date_or_default(parsed, default) == IF parsed # None THEN parsed ELSE default

\* _get_date_field(row, mapping, field, default)
get_date_field(df, row, mapping, field, default) ==
    IF field \notin DOMAIN mapping THEN default
    ELSE date_or_default(parse_date(row_get(df, row, mapping[field].csv_column)), default)

\* _get_number_field(row, mapping, field, default)
get_number_field(df, row, mapping, field, default) ==
    IF field \notin DOMAIN mapping THEN default
    ELSE parse_number(row_get(df, row, mapping[field].csv_column))

\* The clock counts the seconds of the day the files are processed on.
\* datetime.now()
datetime_now(now) == datetime(2024, 3, 1, now)

\* datetime.now().strftime('%Y%m%d%H%M%S')
strftime_now(now) ==
    "20240301" \o ZeroPad(now \div 3600, 2) \o ZeroPad((now \div 60) % 60, 2)
               \o ZeroPad(now % 60, 2)

\* the line item of a row, be it without description
line_item_undescribed(df, row, mapping) ==
    LET description == get_field(df, row, mapping, "description", Some(""))
        amount == get_number_field(df, row, mapping, "amount", Float(0))
    IN  Some([description |-> description[1],
              quantity |-> get_number_field(df, row, mapping, "quantity", Float(1)),
              rate |-> get_number_field(df, row, mapping, "rate", Float(0)),
              amount |-> amount])

\* the line item of a row with its amount as parsed, be it zero
line_item_as_parsed(df, row, mapping) ==
    LET description == get_field(df, row, mapping, "description", None)
    IN  IF description = None \/ description = Some("") THEN None
        ELSE Some([description |-> description[1],
                   quantity |-> get_number_field(df, row, mapping, "quantity", Float(1)),
                   rate |-> get_number_field(df, row, mapping, "rate", Float(0)),
                   amount |-> get_number_field(df, row, mapping, "amount", Float(0))])

\* the line item made of the four values read from a row, or None for a row
\* without description
item_of(description, quantity, rate, amount) ==
    IF description = None \/ description = Some("") THEN None
    ELSE Some([description |-> description[1],
               quantity |-> quantity,
               rate |-> rate,
               amount |-> IF IsZero(amount) /\ Positive(quantity) /\ Positive(rate)
                          THEN Times(quantity, rate) ELSE amount])

\* the line item of a row, or None for a row without description
line_item(df, row, mapping) ==
    item_of(get_field(df, row, mapping, "description", None),
            get_number_field(df, row, mapping, "quantity", Float(1)),
            get_number_field(df, row, mapping, "rate", Float(0)),
            get_number_field(df, row, mapping, "amount", Float(0)))

RECURSIVE collect_line_items(_, _, _)
\* the loop over df.iterrows(), from row number k on
collect_line_items(df, k, mapping) ==
    IF k > Len(df.rows) THEN <<>>
    ELSE line_item(df, df.rows[k], mapping) \o collect_line_items(df, k + 1, mapping)

RECURSIVE sum_amounts(_)
\* sum(item['amount'] for item in line_items)
sum_amounts(line_items) ==
    IF line_items = <<>> THEN Float(0)
    ELSE Plus(sum_amounts(SubSeq(line_items, 1, Len(line_items) - 1)),
              line_items[Len(line_items)].amount)

\* the tax rate of the first row, never derived from the tax amount
tax_rate_as_parsed(tax_amount, tax_rate, subtotal) == tax_rate

\* the tax rate a record gets from the tax values of its first row
final_tax_rate(tax_amount, tax_rate, subtotal) ==
    IF Positive(tax_amount) /\ IsZero(tax_rate) /\ Positive(subtotal)
    THEN Times(Over(tax_amount, subtotal), Float(100))
    ELSE tax_rate

\* the tax amount a record gets from the tax values of its first row
final_tax_amount(tax_amount, tax_rate, subtotal) ==
    IF Positive(tax_amount) /\ IsZero(tax_rate) /\ Positive(subtotal) THEN tax_amount
    ELSE IF Positive(tax_rate) /\ IsZero(tax_amount)
    THEN Times(subtotal, Over(tax_rate, Float(100)))
    ELSE tax_amount

\* a total that leaves the tax out
total_without_tax(subtotal, tax_amount) == subtotal

\* total = subtotal + tax_amount
invoice_total(subtotal, tax_amount) == Plus(subtotal, tax_amount)

\* invoice_data: the record made of the first row of the group, the line
\* items, their sum and the tax values of the first row
invoice_data(df, mapping, now, line_items, subtotal, tax_amount, tax_rate) ==
    LET first_row == df.rows[1]
        text(field, default) == get_field(df, first_row, mapping, field, default)
    IN  Some([invoice_number |-> text("invoice_number", Some("INV-" \o strftime_now(now))),
              invoice_date |-> get_date_field(df, first_row, mapping, "invoice_date",
                                              Some(datetime_now(now))),
              due_date |-> get_date_field(df, first_row, mapping, "due_date", None),
              client_name |-> text("client_name", Some("Unknown Client")),
              client_email |-> text("client_email", None),
              client_address |-> text("client_address", None),
              line_items |-> line_items,
              subtotal |-> subtotal,
              tax_rate |-> final_tax_rate(tax_amount, tax_rate, subtotal),
              tax_amount |-> final_tax_amount(tax_amount, tax_rate, subtotal),
              total |-> invoice_total(subtotal,
                                      final_tax_amount(tax_amount, tax_rate, subtotal)),
              terms |-> text("terms", None),
              notes |-> text("notes", None),
              po_number |-> text("po_number", None),
              currency |-> text("currency", Some("USD")),
              status |-> text("status", Some("draft"))])

\* the record of the invoice, be the group without line items
group_invoice_without_items(df, mapping, now, line_items) ==
    invoice_data(df, mapping, now, line_items, sum_amounts(line_items),
                 get_number_field(df, df.rows[1], mapping, "tax_amount", Float(0)),
                 get_number_field(df, df.rows[1], mapping, "tax_rate", Float(0)))

\* the part of parse_invoice_group behind the loop over the rows: None for a
\* group without line items, the record of the invoice for any other
group_invoice(df, mapping, now, line_items) ==
    IF line_items = <<>> THEN None
    ELSE invoice_data(df, mapping, now, line_items, sum_amounts(line_items),
                      get_number_field(df, df.rows[1], mapping, "tax_amount", Float(0)),
                      get_number_field(df, df.rows[1], mapping, "tax_rate", Float(0)))

\* parse_invoice_group(df, mapping) at the time now: the invoice, or None
parse_invoice_group(df, mapping, now) ==
    IF df.rows = <<>> THEN None
    ELSE group_invoice(df, mapping, now, collect_line_items(df, 1, mapping))

\* ------------------------------------------------------ CSVParserV2.parse_csv

\* A file is [ext, columns, rows]: its extension, the header values pandas
\* reads from it (str, or numbers from the header row of a sheet) and its
\* rows of cells.

\* pd.read_csv / pd.read_excel: the rows get the index labels 0, 1, ...
read_file(file) ==
    [columns |-> file.columns,
     rows |-> SubSeq([k \in 1..Len(file.rows) |-> [label |-> k - 1, cells |-> file.rows[k]]],
                     1, Len(file.rows))]

\* df.empty
empty(df) == df.columns = <<>> \/ df.rows = <<>>

\* the message of the exception reading the file raises, or None: read_csv
\* finds no columns to parse in a file without a header line
read_error(file) ==
    IF file.ext = "csv" /\ file.columns = <<>> THEN Some("No columns to parse from file")
    ELSE None

\* the message of the exception detect_column_mapping raises, or None:
\* best_match calls lower() on a header that is no str
mapping_error(df) ==
    IF \E i \in 1..Len(df.columns) : df.columns[i].kind # "str"
    THEN Some("'int' object has no attribute 'lower'")
    ELSE None

\* the invoices of the groups that have one, in the order of the groups
RECURSIVE parse_groups(_, _, _, _)
parse_groups(invoice_groups, k, mapping, now) ==
    IF k > Len(invoice_groups) THEN <<>>
    ELSE parse_invoice_group(invoice_groups[k], mapping, now)
             \o parse_groups(invoice_groups, k + 1, mapping, now)

\* mapped_fields: the keys of the mapping in the order they were added
mapped_fields(mapping) == SelectSeq(Fields, LAMBDA f : f \in DOMAIN mapping)

RECURSIVE sum_confidence(_, _)
sum_confidence(mapping, fields) ==
    IF fields = <<>> THEN 0
    ELSE mapping[Head(fields)].confidence + sum_confidence(mapping, Tail(fields))

\* what parse_csv returns without invoices; raised is the exception that
\* leaves parse_csv instead of a return value
failure(message) ==
    [invoices |-> <<>>, error |-> Some(message), metadata |-> <<>>, raised |-> None]

\* an except clause that raises the exception again
raise_again(message) ==
    [invoices |-> <<>>, error |-> None, metadata |-> <<>>, raised |-> Some(message)]

\* the except clause of parse_csv
except_exception(message) == failure("Error parsing file: " \o message)

\* the checkpoints with the test of the mapping before the test of the table
checkpoint_mapping_first(df, mapping, invoices) ==
    IF DOMAIN mapping = {}
    THEN Some("Could not detect any recognizable columns. Please check your CSV format.")
    ELSE IF empty(df) THEN Some("File is empty")
    ELSE IF invoices = <<>> THEN Some("No valid invoices found in file")
    ELSE None

\* the checkpoints of parse_csv in its order: the message that fails the file
\* as a whole, or None
checkpoint(df, mapping, invoices) ==
    IF empty(df) THEN Some("File is empty")
    ELSE IF DOMAIN mapping = {}
    THEN Some("Could not detect any recognizable columns. Please check your CSV format.")
    ELSE IF invoices = <<>> THEN Some("No valid invoices found in file")
    ELSE None

\* the run of parse_csv that ends with the outcome before it maps a column
stopped(self, df, outcome) ==
    [outcome |-> outcome, used_columns |-> self.used_columns, mapping |-> <<>>, df |-> df,
     invoice_groups |-> <<>>]

\* the end of the run: what parse_csv returns for the invoices it has parsed,
\* and what the run leaves behind
parse_result(df, detected, split, invoices) ==
    LET mapping == detected.mapping
        fields == mapped_fields(mapping)
        failed == checkpoint(df, mapping, invoices)
    IN  [outcome |->
             IF failed # None THEN failure(failed[1])
             ELSE [invoices |-> invoices,
                   error |-> None,
                   metadata |->
                       [total_rows |-> Len(split.df.rows),
                        total_columns |-> Len(split.df.columns),
                        mapped_fields |-> fields,
                        confidence_scores |-> [f \in DOMAIN mapping |-> mapping[f].confidence],
                        invoices_found |-> Len(invoices),
                        avg_confidence |-> Frac(sum_confidence(mapping, fields), Len(fields))],
                   raised |-> None],
         used_columns |-> detected.used_columns,
         mapping |-> mapping,
         df |-> split.df,
         invoice_groups |-> split.invoice_groups]

\* the run from the loop over the groups on
parse_split(df, now, detected, split) ==
    parse_result(df, detected, split,
                 parse_groups(split.invoice_groups, 1, detected.mapping, now))

\* the run from split_invoices on, which a mapping without fields does not
\* get to
parse_mapped(df, now, detected) ==
    parse_split(df, now, detected,
                IF DOMAIN detected.mapping = {} THEN [df |-> df, invoice_groups |-> <<>>]
                ELSE split_invoices(df, detected.mapping))

\* the run of parse_csv on a table that could be read and has rows
parse_table(self, df, now) ==
    parse_mapped(df, now,
                 detect_column_mapping(
                     self,
                     SubSeq([i \in 1..Len(df.columns) |-> df.columns[i].text],
                            1, Len(df.columns))))

\* parse_csv(file_path) of the parser self at the time now: the (invoices,
\* error_message, metadata) it returns as outcome, and what the run leaves
\* behind: used_columns of the parser, and its mapping, df and invoice_groups
parse_csv(self, file, now) ==
    LET df == read_file(file)
    IN  IF file.ext \notin {"csv", "xlsx", "xls"}
        THEN stopped(self, [columns |-> <<>>, rows |-> <<>>],
                     failure("Unsupported file type: " \o file.ext))
        ELSE IF read_error(file) # None
        THEN stopped(self, [columns |-> <<>>, rows |-> <<>>],
                     except_exception(read_error(file)[1]))
        ELSE IF empty(df) THEN stopped(self, df, failure(checkpoint(df, <<>>, <<>>)[1]))
        ELSE IF mapping_error(df) # None
        THEN stopped([used_columns |-> {}], df, except_exception(mapping_error(df)[1]))
        ELSE parse_table(self, df, now)

\* ------------------------------------------------------------- the inputs

\* the longest header list handed to detect_column_mapping
MaxCols == 3

\* the most rows a table has
MaxRows == 2

\* the latest second the clock reaches
MaxClock == 1

\* the most blanks put before and behind a header
MaxPad == 1

\* the most groups of three digits behind the first digits of an amount
MaxGroups == 1

\* the most requests of one kind in flight
MaxRequests == 2

\* the most invoices the parser finds in an uploaded file
MaxInvoices == 2

\* the most cents of the small amounts tax is calculated for
MaxCents == 30

\* the characters of a text in capitals
Upper(t) ==
    SubSeq([i \in 1..Len(t) |->
               IF \E k \in 1..26 : Chars(LowerAZ)[k] = t[i]
               THEN Chars(UpperAZ)[CHOOSE k \in 1..26 : Chars(LowerAZ)[k] = t[i]]
               ELSE t[i]],
           1, Len(t))

\* a text of n blanks
Blanks(n) == Text(SubSeq([i \in 1..n |-> " "], 1, n))

\* the ways a header spells an entry of the schema: in small letters, in
\* capitals, with a capital first letter, with blanks before and behind it
Spellings(entry) ==
    LET cased == {entry, Text(Upper(Chars(entry))),
                  Text(Upper(SubSeq(Chars(entry), 1, 1))) \o SubSeq(entry, 2, Len(entry))}
    IN  {Blanks(a) \o c \o Blanks(b) : c \in cased, a \in 0..MaxPad, b \in 0..MaxPad}

\* the calls of best_match: a field with a spelling of one of its entries, or
\* with a header of the pool
MatcherInputs ==
    UNION {UNION {{<<h, f>> : h \in Spellings(get_all_mappings[f][i])} :
                     i \in 1..Len(get_all_mappings[f])} :
              f \in FieldSet}
        \cup (HeaderPool \X FieldSet)
        \cup {<<"Rate Tax", "tax_rate">>, <<"Rate Tax", "invoice_date">>, <<"Rate Tax", "rate">>,
              <<"Date Invoice", "invoice_date">>, <<"Amount Total", "subtotal">>,
              <<"Inv", "invoice_number">>, <<"Tax", "tax_rate">>, <<"Item", "due_date">>}

\* the headers of the lists handed to detect_column_mapping
MapperPool == {"Amount", "Customer", "Qty", "Rate", "Tax Rate", "Sales Tax", "col1"}

\* a table has no two columns of one name
HeaderLists ==
    UNION {{cols \in [1..n -> MapperPool] : \A i, j \in 1..n : cols[i] = cols[j] => i = j} :
              n \in 0..MaxCols}

\* the tables of at most MaxRows rows that can be made of the rows given
Tables(rows) == UNION {[1..n -> rows] : n \in 0..MaxRows}

Headers(names) == SubSeq([i \in 1..Len(names) |-> Txt(names[i])], 1, Len(names))

\* -------------------------------------------------------------- TaxService

\* the keys of tax_rates_db in the order _load_tax_rates writes them
StateCodes ==
    <<"AL", "AK", "AZ", "AR", "CA", "CO", "CT", "DE", "FL", "GA", "HI", "ID", "IL", "IN",
      "IA", "KS", "KY", "LA", "ME", "MD", "MA", "MI", "MN", "MS", "MO", "MT", "NE", "NV",
      "NH", "NJ", "NM", "NY", "NC", "ND", "OH", "OK", "OR", "PA", "RI", "SC", "SD", "TN",
      "TX", "UT", "VT", "VA", "WA", "WV", "WI", "WY", "DC">>

\* their rates in hundredths of a percent
StateRates ==
    <<400, 0, 560, 650, 725, 290, 635, 0, 600, 400, 400, 600, 625, 700, 600, 650, 600,
      445, 550, 600, 625, 600, 688, 700, 423, 0, 550, 685, 0, 663, 513, 400, 475, 500,
      575, 450, 0, 600, 700, 600, 450, 700, 625, 610, 600, 530, 650, 600, 500, 400, 600>>

\* self.tax_rates_db: the rate of every state code, in percent
tax_rates_db ==
    [code \in {StateCodes[i] : i \in 1..Len(StateCodes)} |->
        Frac(StateRates[CHOOSE i \in 1..Len(StateCodes) : StateCodes[i] = code], 100)]

\* sub in s for texts
in_text(sub, s) == \E i \in 1..(Len(s) - Len(sub) + 1) : SubSeq(s, i, i + Len(sub) - 1) = sub

\* TaxService.extract_state_from_address(address): the first key of
\* tax_rates_db that occurs anywhere in the address in capitals
extract_state_from_address(address) ==
    IF address = None \/ address = Some("") THEN None
    ELSE LET upper == Text(Upper(Chars(address[1])))
             found == {i \in 1..Len(StateCodes) : in_text(StateCodes[i], upper)}
         IN  IF found = {} THEN None
             ELSE Some(StateCodes[CHOOSE i \in found : \A k \in found : i <= k])

\* round(x, 2) of a float x >= 0: the nearest hundredth; a float that stands
\* for a value halfway between two hundredths lies a little below or above it
\* and is rounded either way
round(x) ==
    LET q == (x.n * 100) \div x.d
        r == (x.n * 100) % x.d
    IN  IF 2 * r < x.d THEN {Frac(q, 100)}
        ELSE IF 2 * r > x.d THEN {Frac(q + 1, 100)}
        ELSE {Frac(q, 100), Frac(q + 1, 100)}

\* the state calculate_tax works with: state_code, or the state of the
\* address when no state_code is given
tax_state(state_code, client_address) ==
    IF (state_code = None \/ state_code = Some("")) /\ client_address # None
          /\ client_address # Some("")
    THEN extract_state_from_address(client_address)
    ELSE state_code

\* tax_rate of calculate_tax: 0.0 unless the state is a key of tax_rates_db
tax_rate_of(state) ==
    IF state # None /\ state # Some("") /\ state[1] \in DOMAIN tax_rates_db
    THEN tax_rates_db[state[1]]
    ELSE Float(0)

\* TaxService.calculate_tax(amount, state_code, client_address): the results
\* it can return
calculate_tax(amount, state_code, client_address) ==
    LET state == tax_state(state_code, client_address)
        tax_rate == tax_rate_of(state)
        tax_amount == Times(amount, Over(tax_rate, Float(100)))
    IN  {[tax_rate |-> tax_rate, tax_amount |-> rounded_tax, total |-> rounded_total,
          state |-> state] :
            rounded_tax \in round(tax_amount), rounded_total \in round(Plus(amount, tax_amount))}

\* ---------------------------------------------------------------- server.py

\* the collections of the database with no document in them
EmptyDatabase ==
    [users |-> {}, organizations |-> {}, branding |-> {}, uploads |-> {}, invoices |-> {}]

\* await db.users.find_one({"email": email}): a user document with the email,
\* or None
find_one_user(base, email) ==
    IF \E u \in base.users : u.email = email
    THEN Some(CHOOSE u \in base.users : u.email = email)
    ELSE None

\* register up to its first await and on to the second: the user is looked
\* up, and the request is rejected with status 400 when there is one
register_find_user(base, call) ==
    IF find_one_user(base, call.email) # None
    THEN [call EXCEPT !.pc = "done", !.status = 400]
    ELSE [call EXCEPT !.pc = IF call.organization_name \notin {None, Some("")}
                              THEN "insert_organization" ELSE "insert_user"]

\* await db.organizations.insert_one(org_dict), for the request number r
insert_organization(base, call, r) ==
    [base EXCEPT !.organizations =
        @ \cup {[id |-> r, name |-> call.organization_name[1], owner_id |-> None]}]

\* await db.users.insert_one(user_dict): no document in users is looked at
insert_user(base, call, r) ==
    [base EXCEPT !.users =
        @ \cup {[id |-> r, email |-> call.email, organization_id |-> call.organization_id,
                 role |-> IF call.organization_id # None THEN "owner" ELSE "member"]}]

\* await db.organizations.update_one({"id": organization_id}, owner_id)
update_owner(base, call, r) ==
    [base EXCEPT !.organizations =
        {IF o.id = call.organization_id[1] THEN [o EXCEPT !.owner_id = Some(r)] ELSE o : o \in @}]

\* await db.branding.insert_one(branding_dict)
insert_branding(base, call) ==
    [base EXCEPT !.branding = @ \cup {[organization_id |-> call.organization_id[1]]}]

\* the user that has registered before
ExistingUser == [id |-> 0, email |-> "ann@example.com", organization_id |-> None, role |-> "member"]

\* the register requests: an email with or without an organization name
RegisterRequests ==
    {[email |-> e, organization_name |-> o, organization_id |-> None, pc |-> "find_user",
      status |-> 0] :
        e \in {"ann@example.com", "bob@example.com"}, o \in {None, Some("Acme")}}

\* what csv_parser.parse_csv returns for an uploaded file: no invoices and an
\* error, or invoices and no error.  An invoice is written as TRUE when
\* Invoice(**invoice_data) accepts it and as FALSE when it raises (an
\* invoice_date that could not be parsed is None).
ParseResults ==
    {[invoices_data |-> <<>>, error |-> Some("File is empty")]}
        \cup {[invoices_data |-> d, error |-> None] :
                 d \in UNION {[1..n -> BOOLEAN] : n \in 1..MaxInvoices}}

\* the upload requests: of a user without organization, of a file that is
\* neither csv nor Excel, or of a file the parser is run on
UploadRequests ==
    {[organization |-> of[1], supported |-> of[2], parsed |-> p, pc |-> "insert_upload",
      invoices_saved |-> 0, status |-> 0] :
        of \in {<<FALSE, TRUE>>, <<TRUE, FALSE>>},
        p \in {[invoices_data |-> <<TRUE>>, error |-> None]}}
        \cup {[organization |-> TRUE, supported |-> TRUE, parsed |-> p, pc |-> "insert_upload",
               invoices_saved |-> 0, status |-> 0] :
                 p \in ParseResults}

\* Upload(..., status=UploadStatus.PROCESSING) with its defaults
processing(id) ==
    [id |-> id, status |-> "processing", invoices_count |-> 0, error_message |-> None]

\* the upload document left as it is
still_processing(upload, message) == upload

\* {"$set": {"status": UploadStatus.FAILED.value, "error_message": ...}}
failed(upload, message) == [upload EXCEPT !.status = "failed", !.error_message = Some(message)]

\* {"$set": {"status": UploadStatus.COMPLETED.value, "invoices_count": ...}}
completed(upload, invoices_saved) ==
    [upload EXCEPT !.status = "completed", !.invoices_count = invoices_saved]

\* the upload document with the id
upload_of(base, id) == CHOOSE u \in base.uploads : u.id = id

\* await db.uploads.update_one({"id": id}, {"$set": ...}), given the document
\* the $set makes of the upload
update_upload(base, id, document) ==
    [base EXCEPT !.uploads = {IF u.id = id THEN document ELSE u : u \in @}]

\* the await upload_csv comes to next after its upload document is inserted
\* and invoices_saved invoices are: the update for the parser's error, the
\* insert of the next invoice, the update of the handler of exceptions when
\* Invoice(...) raises, or the update that completes the upload
next_await(call) ==
    IF call.parsed.error # None THEN "update_error"
    ELSE IF call.invoices_saved < Len(call.parsed.invoices_data)
    THEN (IF call.parsed.invoices_data[call.invoices_saved + 1]
          THEN "insert_invoice" ELSE "update_exception")
    ELSE "update_completed"

\* str(e) of the exception the handler of upload_csv has caught: of the
\* HTTPException(status_code=400, detail=error) raised for the parser's error,
\* which is "400: " and the detail or the empty text, depending on the
\* version of the framework, or of the exception Invoice(...) raised
exception_text(call) ==
    IF call.parsed.error # None THEN {"400: " \o call.parsed.error[1], ""}
    ELSE {"1 validation error for Invoice"}

\* the amounts tax is calculated for
TaxAmounts == {Frac(c, 100) : c \in 0..MaxCents} \cup {Float(100), Float(200)}

\* the addresses of clients
Addresses ==
    {"123 Main St, New York, NY 10001", "9 Hub Sq, UT 84101", "5 Oak, TX", "77 Sunset Blvd", ""}

\* the calls of calculate_tax: with a state code of the table or another
\* one, or with an address and no state code
TaxRequests ==
    {[amount |-> a, state_code |-> Some(c), client_address |-> None] :
        a \in TaxAmounts, c \in DOMAIN tax_rates_db \cup {"XX"}}
        \cup {[amount |-> a, state_code |-> c, client_address |-> Some(d)] :
                 a \in TaxAmounts, c \in {None, Some("")}, d \in Addresses}
        \cup {[amount |-> a, state_code |-> None, client_address |-> None] : a \in TaxAmounts}

\* the first digits of an amount
Leads == {0, 1, 12}

RECURSIVE WholesOf(_)
\* the whole amounts written with g groups of three digits behind the first
WholesOf(g) ==
    IF g = 0 THEN Leads
    ELSE {w * 1000 + t : w \in WholesOf(g - 1) \ {0}, t \in {0, 234, 999}}

\* the non-negative decimals with two decimal digits that are parsed
Decimals == {Frac(w * 100 + c, 100) : w \in UNION {WholesOf(g) : g \in 0..MaxGroups}, c \in 0..99}

RECURSIVE Grouped(_)
\* a whole number with a comma before every group of three digits: 12,000
Grouped(w) ==
    IF w < 1000 THEN ToString(w) ELSE Grouped(w \div 1000) \o "," \o ZeroPad(w % 1000, 3)

\* "$" and the decimal d written with grouped thousands and two decimal
\* digits: $1,234.50
Dollars(d) ==
    LET cents == d.n * (100 \div d.d)
    IN  "$" \o Grouped(cents \div 100) \o "." \o ZeroPad(cents % 100, 2)

\* digits with a comma, a point, both or neither between them
SeparatedTexts ==
    {w \o p \o "234" \o q \o f :
        w \in {"1", "12"}, p \in {"", ",", "."}, q \in {"", ",", "."}, f \in {"", "5", "56", "567"}}

\* the cells parse_number is called with
NumberInputs ==
    {Txt(Dollars(d)) : d \in Decimals} \cup {Txt(t) : t \in SeparatedTexts}
        \cup {Txt("(123.45)"), Txt("($1,234.50)"), Txt("()"), Txt(""), Txt(" 12 "), Txt("n/a"),
              NaN, Num(5, 2)}

\* Invoice files: a number and a date in every row.  The rows of a file come
\* from one of the sets of rows below.
InvoiceHeaders == <<"Invoice #", "Date", "Customer", "Description", "Qty", "Rate", "Amount">>

InvoiceRow(number, date, description, qty, rate, amount) ==
    <<number, date, Txt("Acme"), description, qty, rate, amount>>

\* rows of one invoice number on two dates, one of them without description
InvoiceRows ==
    {InvoiceRow(Txt("INV-1"), Txt("2024-01-15"), Txt("Widget"), Num(1, 1), Num(100, 1), Num(100, 1)),
     InvoiceRow(Txt("INV-1"), Txt("2024-01-15"), Txt("Gadget"), Num(1, 1), Num(50, 1), Num(50, 1)),
     InvoiceRow(Txt("INV-1"), Txt("02/20/2024"), Txt("Service"), Num(3, 1), Num(20, 1), NaN),
     InvoiceRow(Txt("INV-1"), Txt("2024-01-15"), Txt(" "), Num(1, 1), Num(70, 1), Num(70, 1))}

\* rows whose number is blank or missing, and a row of nothing but a number
BlankRows ==
    {InvoiceRow(Txt(" "), Txt("2024-01-15"), Txt("Widget"), Num(1, 1), Num(10, 1), Num(10, 1)),
     InvoiceRow(NaN, Txt("2024-01-15"), Txt("Widget"), Num(1, 1), Num(10, 1), Num(10, 1)),
     InvoiceRow(Txt("INV-2"), NaN, NaN, NaN, NaN, NaN)}

\* rows with an underscore in the number or in the date
UnderscoreRows ==
    {InvoiceRow(Txt("INV"), Txt("01_2024-01-15"), Txt("Hose"), Num(1, 1), Num(9, 1), Num(9, 1)),
     InvoiceRow(Txt("INV_01"), Txt("2024-01-15"), Txt("Cable"), Num(1, 1), Num(7, 1), Num(7, 1))}

\* rows with an amount of zero: with a rate of zero, and with a quantity and a
\* rate above zero
ZeroRows ==
    {InvoiceRow(Txt("INV-3"), Txt("2024-01-15"), Txt("Sample"), Num(2, 1), Num(0, 1), Num(0, 1)),
     InvoiceRow(Txt("INV-3"), Txt("2024-01-15"), Txt("Hosting"), Num(1, 1), Num(15, 1), Num(0, 1))}

\* Rate files: neither a quantity column nor an amount column
RateHeaders == <<"Invoice #", "Description", "Rate">>

RateRows ==
    {<<Txt("INV-1"), Txt("Hosting"), Txt("20")>>,
     <<Txt("INV-1"), Txt("Setup"), Txt("n/c")>>,
     <<Txt("INV-2"), Txt("Support"), NaN>>}

\* Ledger files: no date column, and the money written as text
LedgerHeaders == <<"Invoice #", "Customer", "Description", "Qty", "Amount">>

LedgerRows ==
    {<<Txt("INV-1"), Txt("Acme"), Txt("Widget"), Txt("2"), Txt("$100.00")>>,
     <<Txt("INV-1"), Txt("Acme"), Txt("Refund"), NaN, Txt("(30)")>>,
     <<Txt("INV-2"), Txt("Bolt Ltd"), Txt("Service"), Txt("1"), Txt("1,250.50")>>}

LedgerBlankRows ==
    {<<Txt(" "), Txt("Acme"), Txt("Widget"), Txt("1"), Txt("10")>>,
     <<NaN, NaN, Txt("Gadget"), Txt("1"), Txt("n/c")>>,
     <<Txt("INV-1"), Txt("Acme"), Txt("  "), Txt("1"), Txt("70")>>}

\* Receipt files: one invoice a file, without a number, with its taxes
ReceiptHeaders ==
    <<"Date", "Customer", "Description", "Qty", "Rate", "Amount", "Tax Rate", "Sales Tax">>

\* rows with one of the two tax values, or with neither
ReceiptRows ==
    {<<Txt("2024-01-15"), Txt("Acme"), Txt("Widget"), Num(1, 1), Num(100, 1), Num(100, 1), NaN, Num(8, 1)>>,
     <<Txt("2024-01-15"), Txt("Acme"), Txt("Gadget"), Num(2, 1), Num(25, 1), NaN, Num(10, 1), NaN>>,
     <<Txt("2024-01-15"), Txt("Acme"), Txt(" "), Num(1, 1), Num(5, 1), Num(5, 1), Num(0, 1), Num(0, 1)>>}

\* rows without a date that can be read: one with both tax values, one with a
\* negative amount
UndatedRows ==
    {<<NaN, Txt("Acme"), Txt("Service"), Num(1, 1), Num(40, 1), Num(40, 1), Num(10, 1), Num(5, 1)>>,
     <<Txt("soon"), NaN, Txt("Refund"), Num(1, 1), NaN, Num(-30, 1), NaN, NaN>>}

\* rows of a refund: a negative amount with a tax amount and no rate, and one
\* with a tax rate and no tax amount
RefundRows ==
    {<<Txt("2024-01-15"), Txt("Acme"), Txt("Refund"), Num(1, 1), NaN, Num(-30, 1), NaN, Num(3, 1)>>,
     <<Txt("2024-01-15"), Txt("Acme"), Txt("Return"), Num(1, 1), NaN, Num(-30, 1), Num(10, 1), NaN>>}

\* Bill files: no description column, and no header that is taken for one
BillHeaders == <<"Customer", "Rate", "Amount">>

BillRows ==
    {<<Txt("Acme"), Num(20, 1), Num(60, 1)>>,
     <<Txt("Bolt Ltd"), Txt("5"), NaN>>}

\* files whose headers say nothing, and sheets with numbers for headers
OtherRows == {<<Txt("a"), Txt("b")>>, <<NaN, Txt("c")>>}

Csv(names, rows) == {[ext |-> "csv", columns |-> Headers(names), rows |-> t] : t \in Tables(rows)}

Files ==
    Csv(InvoiceHeaders, InvoiceRows) \cup Csv(InvoiceHeaders, BlankRows)
        \cup Csv(InvoiceHeaders, UnderscoreRows)
        \cup Csv(InvoiceHeaders, ZeroRows) \cup Csv(RateHeaders, RateRows)
        \cup Csv(LedgerHeaders, LedgerRows) \cup Csv(LedgerHeaders, LedgerBlankRows)
        \cup Csv(ReceiptHeaders, ReceiptRows) \cup Csv(ReceiptHeaders, UndatedRows)
        \cup Csv(ReceiptHeaders, RefundRows)
        \cup Csv(BillHeaders, BillRows)
        \cup Csv(<<"col1", "col2">>, OtherRows)
        \cup {[ext |-> "xlsx", columns |-> <<Num(2023, 1), Num(2024, 1)>>, rows |-> t] :
                 t \in Tables(OtherRows)}
        \cup {[ext |-> "csv", columns |-> <<>>, rows |-> <<>>],
              [ext |-> "xlsx", columns |-> <<>>, rows |-> <<>>],
              [ext |-> "txt", columns |-> <<>>, rows |-> <<>>]}

\* ------------------------------------------------------------ the parser

\* used_columns     self.used_columns of the parser
\* mapping          the mapping of the latest detect_column_mapping
\* df_columns       the header list of the latest call of DetectColumnMapping
\* file             the file the parser is given
\* now              the clock: the second datetime.now() reads
\* df               the table of the latest parse_csv as the run left it
\* invoice_groups   the groups of the latest parse_csv
\* outcome          what the latest parse_csv returned, None before the first
\* previous         what the parse_csv before the latest returned, or None
\* header           the column header best_match is called with
\* vocabulary       the standard field whose entries best_match is called with
\* match            what best_match returned, None before the call
\* database         the documents of the collections of the server's database
\* registrations    the register requests in flight: their data, the await each
\*                  has come to, their response
\* uploading        the upload requests in flight, likewise
\* tax_request      the amount, state code and address calculate_tax is called with
\* tax_response     what calculate_tax returned, None before the call
\* raw_value        the cell parse_number is called with
\* normalized       what parse_number returned, None before the call
\* detecting        the calls of detect_column_mapping that run together on the
\*                  parser: the header list of each, the field its outer loop
\*                  has come to, its local mapping
VARIABLES used_columns, mapping, df_columns, file, now, df, invoice_groups, outcome, previous,
          header, vocabulary, match, raw_value, normalized, tax_request, tax_response,
          database, registrations, uploading, detecting

vars ==
    <<used_columns, mapping, df_columns, file, now, df, invoice_groups, outcome, previous,
      header, vocabulary, match, raw_value, normalized, tax_request, tax_response,
      database, registrations, uploading, detecting>>

NoTable == [columns |-> <<>>, rows |-> <<>>]

NoFile == [ext |-> "", columns |-> <<>>, rows |-> <<>>]

\* the variables of the parser, and those of a call of best_match: the header
\* it is called with, the field whose entries it is called with, its result
parser_vars ==
    <<used_columns, mapping, df_columns, file, now, df, invoice_groups, outcome, previous,
      detecting>>

matcher_vars == <<header, vocabulary, match>>

\* the variables of a call of parse_number: the cell, the result
number_vars == <<raw_value, normalized>>

\* the variables of a call of calculate_tax: the arguments, the result
tax_vars == <<tax_request, tax_response>>

\* the variables of the server
server_vars == <<database, registrations, uploading>>

\* the variables the parser leaves alone
call_vars == <<matcher_vars, number_vars, tax_vars, server_vars>>

\* best_match has not been called
NoMatcherCall == header = "" /\ vocabulary = "" /\ match = None

\* parse_number has not been called
NoNumberCall == raw_value = NaN /\ normalized = None

\* calculate_tax has not been called
NoTaxCall ==
    /\ tax_request = [amount |-> Float(0), state_code |-> None, client_address |-> None]
    /\ tax_response = None

\* the server has no request and no document
NoServer == database = EmptyDatabase /\ registrations = <<>> /\ uploading = <<>>

\* nothing but the parser is at work
NoCall == NoMatcherCall /\ NoNumberCall /\ NoTaxCall /\ NoServer

\* no parser is at work
NoParse == df_columns = <<>> /\ file = NoFile /\ now = 0

\* CSVParserV2(): a parser that has mapped nothing yet
NewParser ==
    /\ used_columns = {}
    /\ mapping = <<>>
    /\ df = NoTable
    /\ invoice_groups = <<>>
    /\ outcome = None
    /\ previous = None
    /\ detecting = <<>>

\* a call of detect_column_mapping on the parser
DetectColumnMapping(cols) ==
    \E res \in {detect_column_mapping([used_columns |-> used_columns], cols)} :
        /\ used_columns' = res.used_columns
        /\ mapping' = res.mapping
        /\ df_columns' = cols
        /\ UNCHANGED <<file, now, df, invoice_groups, outcome, previous, detecting, call_vars>>

MapperInit == NewParser /\ NoCall /\ df_columns = <<>> /\ file = NoFile /\ now = 0

MapperNext == \E cols \in HeaderLists : DetectColumnMapping(cols)

\* a parser that is handed one header list after the other
MapperSpec == MapperInit /\ [][MapperNext]_vars

\* a call of parse_csv on the file
ParseCsv ==
    \E run \in {parse_csv([used_columns |-> used_columns], file, now)} :
        /\ used_columns' = run.used_columns
        /\ mapping' = run.mapping
        /\ df' = run.df
        /\ invoice_groups' = run.invoice_groups
        /\ outcome' = Some(run.outcome)
        /\ previous' = outcome
        /\ UNCHANGED <<df_columns, file, now, detecting, call_vars>>

\* the file is handed to a parser made anew
Construct ==
    /\ used_columns' = {}
    /\ UNCHANGED <<mapping, df_columns, file, now, df, invoice_groups, outcome, previous,
                   detecting, call_vars>>

\* a second passes
Tick ==
    /\ now < MaxClock
    /\ now' = now + 1
    /\ UNCHANGED <<used_columns, mapping, df_columns, file, df, invoice_groups, outcome, previous,
                   detecting, call_vars>>

Init == NewParser /\ NoCall /\ df_columns = <<>> /\ file \in Files /\ now = 0

Next == ParseCsv \/ Construct \/ Tick

\* the engine run on one file, again and again
Spec == Init /\ [][Next]_vars

\* a call of best_match with the header and the entries of the field
BestMatch ==
    /\ match = None
    /\ match' = Some(best_match(header, get_all_mappings[vocabulary]))
    /\ UNCHANGED <<header, vocabulary, parser_vars, number_vars, tax_vars, server_vars>>

MatcherInit ==
    /\ NewParser /\ NoParse /\ NoNumberCall /\ NoTaxCall /\ NoServer
    /\ \E call \in MatcherInputs : header = call[1] /\ vocabulary = call[2]
    /\ match = None

MatcherNext == BestMatch

\* best_match called on one header and the entries of one field
MatcherSpec == MatcherInit /\ [][MatcherNext]_vars

\* a call of parse_number on the cell
ParseNumber ==
    /\ normalized = None
    /\ normalized' = Some(parse_number(raw_value))
    /\ UNCHANGED <<raw_value, parser_vars, matcher_vars, tax_vars, server_vars>>

NumberInit ==
    /\ NewParser /\ NoParse /\ NoMatcherCall /\ NoTaxCall /\ NoServer
    /\ raw_value \in NumberInputs
    /\ normalized = None

NumberNext == ParseNumber

\* parse_number called on one cell
NumberSpec == NumberInit /\ [][NumberNext]_vars

\* a call of calculate_tax with the arguments of the request
CalculateTax ==
    /\ tax_response = None
    /\ \E result \in calculate_tax(tax_request.amount, tax_request.state_code,
                                    tax_request.client_address) :
           tax_response' = Some(result)
    /\ UNCHANGED <<tax_request, parser_vars, matcher_vars, number_vars, server_vars>>

TaxInit ==
    /\ NewParser /\ NoParse /\ NoMatcherCall /\ NoNumberCall /\ NoServer
    /\ tax_request \in TaxRequests
    /\ tax_response = None

TaxNext == CalculateTax

\* calculate_tax called once
TaxSpec == TaxInit /\ [][TaxNext]_vars

\* register runs to its await of find_one and is answered by the database
FindUser(r) ==
    /\ registrations[r].pc = "find_user"
    /\ registrations' = [registrations EXCEPT ![r] = register_find_user(database, @)]
    /\ UNCHANGED <<database, uploading, parser_vars, matcher_vars, number_vars, tax_vars>>

\* the organization of the request is inserted
InsertOrganization(r) ==
    /\ registrations[r].pc = "insert_organization"
    /\ database' = insert_organization(database, registrations[r], r)
    /\ registrations' = [registrations EXCEPT ![r].organization_id = Some(r),
                                                ![r].pc = "insert_user"]
    /\ UNCHANGED <<uploading, parser_vars, matcher_vars, number_vars, tax_vars>>

\* the user of the request is inserted; without an organization the request
\* is answered
InsertUser(r) ==
    /\ registrations[r].pc = "insert_user"
    /\ database' = insert_user(database, registrations[r], r)
    /\ registrations' =
           IF registrations[r].organization_id # None
           THEN [registrations EXCEPT ![r].pc = "update_owner"]
           ELSE [registrations EXCEPT ![r].pc = "done", ![r].status = 200]
    /\ UNCHANGED <<uploading, parser_vars, matcher_vars, number_vars, tax_vars>>

\* the owner of the organization is set
UpdateOwner(r) ==
    /\ registrations[r].pc = "update_owner"
    /\ database' = update_owner(database, registrations[r], r)
    /\ registrations' = [registrations EXCEPT ![r].pc = "insert_branding"]
    /\ UNCHANGED <<uploading, parser_vars, matcher_vars, number_vars, tax_vars>>

\* the branding is inserted and the request is answered
InsertBranding(r) ==
    /\ registrations[r].pc = "insert_branding"
    /\ database' = insert_branding(database, registrations[r])
    /\ registrations' = [registrations EXCEPT ![r].pc = "done", ![r].status = 200]
    /\ UNCHANGED <<uploading, parser_vars, matcher_vars, number_vars, tax_vars>>

RegisterInit ==
    /\ NewParser /\ NoParse /\ NoMatcherCall /\ NoNumberCall /\ NoTaxCall
    /\ database \in {EmptyDatabase, [EmptyDatabase EXCEPT !.users = {ExistingUser}]}
    /\ registrations \in [1..MaxRequests -> RegisterRequests]
    /\ uploading = <<>>

RegisterNext ==
    \E r \in 1..MaxRequests :
        \/ FindUser(r)
        \/ InsertOrganization(r)
        \/ InsertUser(r)
        \/ UpdateOwner(r)
        \/ InsertBranding(r)

\* register requests served together, each suspended at its awaits
RegisterSpec == RegisterInit /\ [][RegisterNext]_vars

\* upload_csv up to its first await: the request is rejected with 400, or
\* the upload document is inserted
InsertUpload(u) ==
    /\ uploading[u].pc = "insert_upload"
    /\ IF uploading[u].organization /\ uploading[u].supported
       THEN /\ database' = [database EXCEPT !.uploads = @ \cup {processing(u)}]
            /\ uploading' = [uploading EXCEPT ![u].pc = next_await(uploading[u])]
       ELSE /\ uploading' = [uploading EXCEPT ![u].pc = "done", ![u].status = 400]
            /\ UNCHANGED database
    /\ UNCHANGED <<registrations, parser_vars, matcher_vars, number_vars, tax_vars>>

\* the parser reported an error: the upload is set to FAILED, and the
\* HTTPException raised next is caught by the handler of exceptions
UpdateError(u) ==
    /\ uploading[u].pc = "update_error"
    /\ database' = update_upload(database, u,
                                 failed(upload_of(database, u), uploading[u].parsed.error[1]))
    /\ uploading' = [uploading EXCEPT ![u].pc = "update_exception"]
    /\ UNCHANGED <<registrations, parser_vars, matcher_vars, number_vars, tax_vars>>

\* an invoice is inserted and counted
InsertInvoice(u) ==
    /\ uploading[u].pc = "insert_invoice"
    /\ database' = [database EXCEPT !.invoices =
           @ \cup {[upload_id |-> u, item |-> uploading[u].invoices_saved + 1]}]
    /\ uploading' =
           [uploading EXCEPT
               ![u] = LET saved == [@ EXCEPT !.invoices_saved = @ + 1]
                      IN  [saved EXCEPT !.pc = next_await(saved)]]
    /\ UNCHANGED <<registrations, parser_vars, matcher_vars, number_vars, tax_vars>>

\* the upload is set to COMPLETED and the request is answered
UpdateCompleted(u) ==
    /\ uploading[u].pc = "update_completed"
    /\ database' = update_upload(database, u,
                                 completed(upload_of(database, u), uploading[u].invoices_saved))
    /\ uploading' = [uploading EXCEPT ![u].pc = "done", ![u].status = 200]
    /\ UNCHANGED <<registrations, parser_vars, matcher_vars, number_vars, tax_vars>>

\* the handler of exceptions sets the upload to FAILED with the text of the
\* exception it caught and answers with 500
UpdateException(u) ==
    /\ uploading[u].pc = "update_exception"
    /\ \E message \in exception_text(uploading[u]) :
           database' = update_upload(database, u, failed(upload_of(database, u), message))
    /\ uploading' = [uploading EXCEPT ![u].pc = "done", ![u].status = 500]
    /\ UNCHANGED <<registrations, parser_vars, matcher_vars, number_vars, tax_vars>>

UploadInit ==
    /\ NewParser /\ NoParse /\ NoMatcherCall /\ NoNumberCall /\ NoTaxCall
    /\ database = EmptyDatabase
    /\ registrations = <<>>
    /\ uploading \in [1..MaxRequests -> UploadRequests]

UploadNext ==
    \E u \in 1..MaxRequests :
        \/ InsertUpload(u)
        \/ UpdateError(u)
        \/ InsertInvoice(u)
        \/ UpdateCompleted(u)
        \/ UpdateException(u)

\* upload requests served together, each suspended at its awaits
UploadSpec == UploadInit /\ [][UploadNext]_vars

\* ---------------------------------------------- csv_parser.py: CSVParser

\* the keys of COLUMN_MAPPINGS in their order
COLUMN_MAPPINGS_keys ==
    <<"invoice_number", "invoice_date", "due_date", "client_name", "client_email",
      "client_address", "description", "quantity", "rate", "amount", "subtotal", "tax_rate",
      "tax_amount", "total", "notes">>

COLUMN_MAPPINGS ==
    [invoice_number |-> <<"invoice #", "invoice number", "invoice no", "inv #", "inv no",
                          "number", "doc number", "num">>,
     invoice_date |-> <<"date", "invoice date", "transaction date", "inv date", "issue date",
                        "created date">>,
     due_date |-> <<"due date", "payment due", "due", "terms date", "payment date">>,
     client_name |-> <<"customer", "client", "customer name", "client name", "bill to",
                       "sold to", "company", "business name">>,
     client_email |-> <<"email", "customer email", "client email", "contact email", "e-mail">>,
     client_address |-> <<"address", "billing address", "customer address", "street",
                          "bill to address">>,
     description |-> <<"description", "item", "product/service", "item description", "memo",
                       "service description", "product">>,
     quantity |-> <<"qty", "quantity", "units", "hours", "amount">>,
     rate |-> <<"rate", "price", "unit price", "cost", "price each", "unit cost",
                "hourly rate">>,
     amount |-> <<"amount", "total", "line total", "extended amount", "subtotal", "sum">>,
     subtotal |-> <<"subtotal", "sub total", "sub-total", "net amount">>,
     tax_rate |-> <<"tax rate", "tax %", "tax percent", "sales tax rate">>,
     tax_amount |-> <<"tax", "tax amount", "sales tax", "tax total", "gst", "vat">>,
     total |-> <<"total", "grand total", "invoice total", "balance due", "amount due">>,
     notes |-> <<"notes", "memo", "message", "comments", "terms", "description">>]

\* CSVParser.fuzzy_match_column(column_name, target_columns): the first of the
\* targets with the highest fuzz.ratio above 70, or None
fuzzy_match_column(column_name, target_columns) ==
    LET lowered == PyStrip(PyLower(Chars(column_name)))
        scores == SubSeq([i \in 1..Len(target_columns) |->
                             fuzz_ratio(lowered, Chars(target_columns[i]))],
                         1, Len(target_columns))
        best == BestTarget(scores, target_columns, 71)
    IN  IF best.found THEN Some(best.target) ELSE None

\* fuzzy_match_column(col, variations) for every header of the pool and every
\* key of COLUMN_MAPPINGS, computed once
MatchTable ==
    [k \in DOMAIN COLUMN_MAPPINGS |->
        [c \in HeaderPool |-> fuzzy_match_column(c, COLUMN_MAPPINGS[k])] @@ <<>>] @@ <<>>

\* the places in cols of the columns that match a variation of the field
matching_columns(cols, standard_field) ==
    {i \in 1..Len(cols) : MatchTable[standard_field][cols[i]] # None}

\* CSVParser.detect_column_mapping(df_columns): every field with a matching
\* column gets the first of its matching columns
CSVParser_detect_column_mapping(cols) ==
    [k \in {f \in DOMAIN COLUMN_MAPPINGS : matching_columns(cols, f) # {}} |->
        cols[CHOOSE i \in matching_columns(cols, k) :
                 \A j \in matching_columns(cols, k) : i <= j]] @@ <<>>

\* the headers of the lists handed to CSVParser.detect_column_mapping
CSVParserPool == {"Invoice #", "Customer", "Description", "Qty", "Amount", "col1"}

\* the header lists handed to CSVParser.detect_column_mapping: a table has no
\* two columns of one name
CSVParserLists ==
    UNION {{cols \in [1..n -> CSVParserPool] : \A i, j \in 1..n : cols[i] = cols[j] => i = j} :
              n \in 0..MaxCols}

\* a call of detect_column_mapping on csv_parser, the CSVParser of server.py
CSVParserDetect(cols) ==
    /\ mapping' = CSVParser_detect_column_mapping(cols)
    /\ df_columns' = cols
    /\ UNCHANGED <<used_columns, file, now, df, invoice_groups, outcome, previous, detecting,
                   call_vars>>

CSVParserInit == MapperInit

CSVParserNext == \E cols \in CSVParserLists : CSVParserDetect(cols)

\* csv_parser handed one header list after the other
CSVParserSpec == CSVParserInit /\ [][CSVParserNext]_vars

\* --------------------------------------------- calls that run together

\* the header lists of the calls of detect_column_mapping that run together
SharedLists == {<<"Amount">>, <<"Qty", "Amount">>, <<"Customer", "Sales Tax">>, <<"col1">>}

\* a call of detect_column_mapping that has not begun
waiting(cols) == [df_columns |-> cols, field |-> 0, mapping |-> <<>>]

\* the call has returned its mapping
returned(call) == call.field > Len(Fields)

\* the call begins: mapping = {} and self.used_columns = set(), which gives
\* the parser a new set whatever call filled the one before
BeginDetect(c) ==
    /\ detecting[c].field = 0
    /\ detecting' = [detecting EXCEPT ![c].field = 1]
    /\ used_columns' = {}
    /\ UNCHANGED <<mapping, df_columns, file, now, df, invoice_groups, outcome, previous,
                   call_vars>>

\* one pass of the outer loop of the call, for the field it has come to: the
\* columns are tested against self.used_columns as it is now, and the column
\* that is assigned is added to it
MapField(c) ==
    /\ detecting[c].field \in 1..Len(Fields)
    /\ \E st \in {map_field(detecting[c].df_columns, Fields[detecting[c].field],
                             [mapping |-> detecting[c].mapping, used_columns |-> used_columns])} :
           /\ detecting' = [detecting EXCEPT ![c].mapping = st.mapping, ![c].field = @ + 1]
           /\ used_columns' = st.used_columns
    /\ UNCHANGED <<mapping, df_columns, file, now, df, invoice_groups, outcome, previous,
                   call_vars>>

SharedInit ==
    /\ used_columns = {} /\ mapping = <<>> /\ df = NoTable /\ invoice_groups = <<>>
    /\ outcome = None /\ previous = None
    /\ NoParse /\ NoCall
    /\ detecting \in [1..MaxRequests -> {waiting(cols) : cols \in SharedLists}]

SharedNext == \E c \in 1..MaxRequests : BeginDetect(c) \/ MapField(c)

\* calls of detect_column_mapping on one parser, run together with the
\* passes of their outer loops interleaved
SharedSpec == SharedInit /\ [][SharedNext]_vars

\* ------------------------------------------------------------- the claims

\* C1: the mapping detect_column_mapping returns never gives one source column
\* to two standard fields, whatever header lists the parser was handed before
C1_NoColumnReused ==
    \A f, g \in DOMAIN mapping : f # g => mapping[f].csv_column # mapping[g].csv_column

\* the parser was handed a list with a header that two fields would take, and
\* has mapped two fields
C1_Witness ==
    /\ Cardinality(DOMAIN mapping) >= 2
    /\ \E f \in DOMAIN mapping, g \in FieldSet :
           g # f /\ match_result(mapping[f].csv_column, g).score >= 70

\* the invoices the latest parse_csv returned
Invoices == IF outcome = None THEN <<>> ELSE outcome[1].invoices

RECURSIVE AmountsSum(_)
AmountsSum(items) ==
    IF items = <<>> THEN Float(0) ELSE Plus(Head(items).amount, AmountsSum(Tail(items)))

\* C2: every invoice has total = subtotal + tax_amount, and its subtotal is
\* the sum of the amounts of its line items, whatever the rows and the taxes
C2_TotalsAdd ==
    \A k \in 1..Len(Invoices) :
        /\ Invoices[k].total = Plus(Invoices[k].subtotal, Invoices[k].tax_amount)
        /\ Invoices[k].subtotal = AmountsSum(Invoices[k].line_items)

\* an invoice whose first row gives a tax rate and a tax amount that do not
\* agree, and that has a negative amount
C2_Witness ==
    \E k \in 1..Len(Invoices) :
        /\ Positive(Invoices[k].tax_rate) /\ Positive(Invoices[k].tax_amount)
        /\ Invoices[k].tax_amount #
               Times(Invoices[k].subtotal, Over(Invoices[k].tax_rate, Float(100)))
        /\ \E i \in 1..Len(Invoices[k].line_items) : Invoices[k].line_items[i].amount.n < 0

\* the row has a description: its cell of the description column is not
\* empty once stripped
HasDescription(group, row) ==
    /\ "description" \in DOMAIN mapping
    /\ LET cell == row_get(group, row, mapping["description"].csv_column)
       IN  ~isna(cell) /\ truthy(cell) /\ strip(str(cell)) # ""

Described(group) == \E k \in 1..Len(group.rows) : HasDescription(group, group.rows[k])

\* C3: every invoice of an outcome has a line item, and every line item a
\* description that is not empty; the groups without any described row give
\* no invoice, and neither an error nor an exception when another group does
C3_LineItems ==
    /\ \A k \in 1..Len(Invoices) :
           /\ Invoices[k].line_items # <<>>
           /\ \A i \in 1..Len(Invoices[k].line_items) :
                  Invoices[k].line_items[i].description # ""
    /\ outcome # None =>
           /\ Len(Invoices) =
                  Cardinality({g \in 1..Len(invoice_groups) : Described(invoice_groups[g])})
           /\ (\E g \in 1..Len(invoice_groups) : Described(invoice_groups[g])) =>
                  outcome[1].error = None /\ outcome[1].raised = None

\* a run that skipped a group without description and returned the invoice of
\* another
C3_Witness ==
    /\ outcome # None
    /\ outcome[1].error = None
    /\ Len(Invoices) >= 1
    /\ \E g \in 1..Len(invoice_groups) : ~Described(invoice_groups[g])

NumberCell(row) == row_get(df, row, mapping["invoice_number"].csv_column)

DateCell(row) == row_get(df, row, mapping["invoice_date"].csv_column)

\* the invoice-number cell of the row is null, empty or blanks only
BlankNumber(row) == isna(NumberCell(row)) \/ strip(str(NumberCell(row))) = ""

\* the groups that hold the row of df with the label
GroupsOf(label) ==
    {g \in 1..Len(invoice_groups) :
        \E k \in 1..Len(invoice_groups[g].rows) : invoice_groups[g].rows[k].label = label}

\* the place among the invoices of the invoice of group g
InvoiceOf(g) == Cardinality({h \in 1..g : Described(invoice_groups[h])})

\* the invoice has a line item for the row
HasLineOf(invoice, row) ==
    \E i \in 1..Len(invoice.line_items) :
        invoice.line_items[i].description =
            strip(str(row_get(df, row, mapping["description"].csv_column)))

\* C4: with invoice_number mapped, a row whose invoice-number cell is null,
\* empty or blanks only is in no group of split_invoices, be the groups made
\* by invoice number or by invoice number and date
C4_BlankNumberInNoGroup ==
    "invoice_number" \in DOMAIN mapping =>
        \A k \in 1..Len(df.rows) : BlankNumber(df.rows[k]) => GroupsOf(df.rows[k].label) = {}

\* C5: with invoice_number and invoice_date mapped, two rows with the same
\* invoice number, not blank, and different dates are never in one group,
\* and give two invoices when both have a description
C5_DatesSeparate ==
    ("invoice_number" \in DOMAIN mapping /\ "invoice_date" \in DOMAIN mapping) =>
        \A i, j \in 1..Len(df.rows) :
            LET r1 == df.rows[i]
                r2 == df.rows[j]
            IN  (~BlankNumber(r1) /\ NumberCell(r1) = NumberCell(r2)
                     /\ DateCell(r1) # DateCell(r2)) =>
                    /\ GroupsOf(r1.label) \cap GroupsOf(r2.label) = {}
                    /\ (HasDescription(df, r1) /\ HasDescription(df, r2)) =>
                           \E g1 \in GroupsOf(r1.label), g2 \in GroupsOf(r2.label) :
                               /\ InvoiceOf(g1) # InvoiceOf(g2)
                               /\ InvoiceOf(g1) \in 1..Len(Invoices)
                               /\ InvoiceOf(g2) \in 1..Len(Invoices)
                               /\ HasLineOf(Invoices[InvoiceOf(g1)], r1)
                               /\ HasLineOf(Invoices[InvoiceOf(g2)], r2)

\* two described rows with one invoice number and two dates, and the invoices
\* of the run
C5_Witness ==
    /\ "invoice_number" \in DOMAIN mapping /\ "invoice_date" \in DOMAIN mapping
    /\ Len(Invoices) >= 2
    /\ \E i, j \in 1..Len(df.rows) :
           /\ ~BlankNumber(df.rows[i])
           /\ NumberCell(df.rows[i]) = NumberCell(df.rows[j])
           /\ DateCell(df.rows[i]) # DateCell(df.rows[j])
           /\ HasDescription(df, df.rows[i]) /\ HasDescription(df, df.rows[j])

\* the rows have the same invoice number, and the same date if dates are mapped
SameInvoice(r1, r2) ==
    /\ NumberCell(r1) = NumberCell(r2)
    /\ "invoice_date" \in DOMAIN mapping => DateCell(r1) = DateCell(r2)

RECURSIVE LineAmounts(_)
\* the sum of the line amounts of the rows of df with the numbers given
LineAmounts(rows) ==
    IF rows = {} THEN Float(0)
    ELSE LET k == CHOOSE r \in rows : TRUE
             item == line_item(df, df.rows[k], mapping)
         IN  Plus(IF item = None THEN Float(0) ELSE item[1].amount, LineAmounts(rows \ {k}))

\* C6: the rows that share an invoice number, not blank (and the date, when
\* dates are mapped), are in exactly one group, which gives exactly one invoice,
\* whose subtotal is the sum of the line amounts of those rows; two INV-1 rows
\* of 100 and 50 under the headers Invoice #, Date, Customer, Description, Qty,
\* Rate, Amount give one invoice with subtotal 150, tax_amount 0, total 150
C6_OneGroupOneInvoice ==
    /\ "invoice_number" \in DOMAIN mapping =>
           \A i \in 1..Len(df.rows) :
               LET same == {j \in 1..Len(df.rows) : SameInvoice(df.rows[i], df.rows[j])}
               IN  ~BlankNumber(df.rows[i]) =>
                       \E g \in 1..Len(invoice_groups) :
                           /\ \A j \in same : GroupsOf(df.rows[j].label) = {g}
                           /\ (\E j \in same : HasDescription(df, df.rows[j])) =>
                                  /\ InvoiceOf(g) \in 1..Len(Invoices)
                                  /\ Invoices[InvoiceOf(g)].subtotal = LineAmounts(same)
    /\ (/\ outcome # None
        /\ file.columns = Headers(InvoiceHeaders)
        /\ file.rows =
               <<InvoiceRow(Txt("INV-1"), Txt("2024-01-15"), Txt("Widget"), Num(1, 1),
                            Num(100, 1), Num(100, 1)),
                 InvoiceRow(Txt("INV-1"), Txt("2024-01-15"), Txt("Gadget"), Num(1, 1),
                            Num(50, 1), Num(50, 1))>>) =>
           /\ Len(Invoices) = 1
           /\ Invoices[1].subtotal = Float(150)
           /\ Invoices[1].tax_amount = Float(0)
           /\ Invoices[1].total = Float(150)

\* the file is of a supported type, could be read, and its headers are texts
Readable ==
    /\ file.ext \in {"csv", "xlsx", "xls"}
    /\ ~(file.ext = "csv" /\ file.columns = <<>>)
    /\ \A i \in 1..Len(file.columns) : file.columns[i].kind = "str"

\* no header of the file reaches the score of 70 for any field
NoFieldMatches ==
    \A i \in 1..Len(file.columns), f \in FieldSet :
        file.columns[i].text \in HeaderPool => ScoreTable[f][file.columns[i].text].score < 70

\* C7: a table that was read fails as a whole at exactly three checkpoints,
\* each with a diagnostic of its own: "File is empty" for a table without rows,
\* the message about recognizable columns when no field is mapped, and "No
\* valid invoices found in file" when fields are mapped and no invoice comes
\* out; an outcome has an error exactly when it has no invoice
C7_Checkpoints ==
    outcome # None =>
        LET o == outcome[1]
        IN  /\ (o.error = None) <=> (o.invoices # <<>>)
            /\ Readable =>
                   /\ (file.columns = <<>> \/ file.rows = <<>>) =>
                          o.error = Some("File is empty")
                   /\ (file.columns # <<>> /\ file.rows # <<>> /\ NoFieldMatches) =>
                          o.error = Some("Could not detect any recognizable columns. Please check your CSV format.")
                   /\ (file.columns # <<>> /\ file.rows # <<>> /\ ~NoFieldMatches
                           /\ o.invoices = <<>>) =>
                          o.error = Some("No valid invoices found in file")
                   /\ o.error # None =>
                          \/ file.columns = <<>> \/ file.rows = <<>>
                          \/ NoFieldMatches
                          \/ o.invoices = <<>>

\* a table with rows and mapped fields that gives no invoice
C7_Witness ==
    /\ outcome # None
    /\ Readable /\ file.rows # <<>> /\ DOMAIN mapping # {}
    /\ outcome[1].error = Some("No valid invoices found in file")

\* C8: no exception leaves parse_csv: a fault while the file is read or its
\* columns are mapped ends in an outcome without invoices and with a
\* diagnostic that is not empty, and so does every other failure
C8_NoFaultEscapes ==
    outcome # None =>
        LET o == outcome[1]
        IN  /\ o.raised = None
            /\ o.invoices = <<>> => (o.error # None /\ o.error[1] # "")
            /\ (file.ext \in {"csv", "xlsx", "xls"} /\ ~Readable) =>
                   (o.invoices = <<>> /\ o.error # None)

\* the run on a sheet with rows whose headers are numbers, which makes
\* detect_column_mapping raise
C8_Witness ==
    /\ outcome # None
    /\ file.ext = "xlsx" /\ file.rows # <<>>
    /\ \E i \in 1..Len(file.columns) : file.columns[i].kind = "num"
    /\ outcome[1].error = Some("Error parsing file: 'int' object has no attribute 'lower'")

\* the groups of the last run that gave an invoice, in their order
DescribedGroups == SelectSeq(invoice_groups, LAMBDA g : Described(g))

\* parse_invoice_group takes the invoice number of the group from the clock
ClockNumber(group) ==
    \/ "invoice_number" \notin DOMAIN mapping
    \/ get_field(group, group.rows[1], mapping, "invoice_number", None) = None

\* parse_invoice_group takes the invoice date of the group from the clock
ClockDate(group) ==
    \/ "invoice_date" \notin DOMAIN mapping
    \/ get_date_field(group, group.rows[1], mapping, "invoice_date", None) = None

\* the outcome without the values its invoices took from the clock
WithoutClock(o) ==
    IF Len(o.invoices) # Len(DescribedGroups) THEN o
    ELSE [o EXCEPT !.invoices =
              SubSeq([k \in 1..Len(o.invoices) |->
                         [o.invoices[k] EXCEPT
                              !.invoice_number =
                                  IF ClockNumber(DescribedGroups[k]) THEN None ELSE @,
                              !.invoice_date =
                                  IF ClockDate(DescribedGroups[k]) THEN None ELSE @]],
                     1, Len(o.invoices))]

\* C9 as stated: two runs of parse_csv on the same table give identical
\* outcomes
C9_Identical == previous # None => outcome = previous

\* C9: two runs of parse_csv on the same table give outcomes that are
\* identical but for the invoice numbers and invoice dates that
\* parse_invoice_group took from the clock
C9_IdenticalButClock ==
    previous # None => WithoutClock(outcome[1]) = WithoutClock(previous[1])

\* two runs on one table at two times, with an invoice whose number or date
\* comes from the clock
C9_Witness ==
    /\ previous # None
    /\ outcome # previous
    /\ Len(Invoices) >= 1
    /\ \E k \in 1..Len(DescribedGroups) :
           ClockNumber(DescribedGroups[k]) \/ ClockDate(DescribedGroups[k])

\* C10: for a header that, stripped and in small letters, is an entry of the
\* field in small letters, best_match returns that entry with the score 100
C10_ExactMatch ==
    match # None =>
        LET stripped == PyLower(PyStrip(Chars(header)))
            targets == get_all_mappings[vocabulary]
        IN  \A i \in 1..Len(targets) :
                stripped = PyLower(Chars(targets[i])) =>
                    /\ match[1].found
                    /\ match[1].score = 100
                    /\ PyLower(Chars(match[1].target)) = stripped
                    /\ \E k \in 1..Len(targets) : targets[k] = match[1].target

\* a header in capitals with blanks around it that best_match was called with
C10_Witness ==
    /\ match # None
    /\ match[1].found /\ match[1].score = 100
    /\ Len(header) > Len(match[1].target)
    /\ Chars(header) # PyLower(Chars(header))

\* the headers taken by the fields registered before the k-th field
UsedBefore(k) ==
    {mapping[Fields[j]].csv_column : j \in {i \in 1..(k - 1) : Fields[i] \in DOMAIN mapping}}

\* the places in df_columns of the headers not yet used when the k-th field is
\* processed
FreeAt(k) == {i \in 1..Len(df_columns) : df_columns[i] \notin UsedBefore(k)}

\* the confidence best_match gives the i-th header against the k-th field
Confidence(i, k) == match_result(df_columns[i], Fields[k]).score

\* C11: detect_column_mapping processes the fields in registration order; a
\* field is assigned if and only if some header not used by an earlier field
\* has confidence >= 70 against its vocabulary; the assigned header is the
\* earliest of the not-yet-used headers with the highest confidence, the
\* recorded confidence is that highest confidence and lies in 70..100
C11_GreedyAssignment ==
    \A k \in 1..Len(Fields) :
        LET field == Fields[k]
        IN  /\ field \in DOMAIN mapping <=> \E i \in FreeAt(k) : Confidence(i, k) >= 70
            /\ field \in DOMAIN mapping =>
                   /\ mapping[field].confidence \in 70..100
                   /\ \E i \in FreeAt(k) :
                          /\ df_columns[i] = mapping[field].csv_column
                          /\ Confidence(i, k) = mapping[field].confidence
                          /\ \A j \in FreeAt(k) : Confidence(j, k) <= Confidence(i, k)
                          /\ \A j \in FreeAt(k) : j < i => Confidence(j, k) < Confidence(i, k)

\* a field took the earlier of two free headers of equal confidence below 100,
\* and another field stayed unassigned although a header taken before it
\* reaches 70 against its vocabulary
C11_Witness ==
    /\ \E k \in 1..Len(Fields) :
           /\ Fields[k] \in DOMAIN mapping
           /\ mapping[Fields[k]].confidence < 100
           /\ \E i, j \in FreeAt(k) :
                  /\ i < j
                  /\ df_columns[i] = mapping[Fields[k]].csv_column
                  /\ Confidence(j, k) = Confidence(i, k)
    /\ \E k \in 1..Len(Fields) :
           /\ Fields[k] \notin DOMAIN mapping
           /\ \E i \in 1..Len(df_columns) : Confidence(i, k) >= 70

\* a text of digits with its separators read as stated: with ',' and '.' the
\* one that occurs last is the decimal separator, a ',' alone is the decimal
\* separator when two digits follow it and a thousands separator otherwise
separators_as_stated(t) ==
    IF contains(t, ",") /\ contains(t, ".")
    THEN (IF rindex(t, ",") > rindex(t, ".")
          THEN replace(replace(t, ".", ""), ",", ".")
          ELSE replace(t, ",", ""))
    ELSE IF contains(t, ",")
    THEN (IF Len(t) - rindex(t, ",") = 2 THEN replace(t, ",", ".") ELSE replace(t, ",", ""))
    ELSE t

\* C12: for a text with ',' and '.', parse_number takes the one that occurs
\* last as the decimal separator (1.234,56 and 1,234.56 give 1234.56); for a
\* text with ',' only, the ',' is the decimal separator when exactly two digits
\* follow it (1234,56 gives 1234.56) and a thousands separator otherwise
\* (1,234 gives 1234)
C12_Separators ==
    (/\ normalized # None
     /\ raw_value.kind = "str"
     /\ contains(raw_value.text, ",")
     /\ AllDigits(remove(raw_value.text, {",", "."}))
     /\ float(separators_as_stated(raw_value.text)).ok)
        => normalized[1] = float(separators_as_stated(raw_value.text)).value

\* C13: parse_number of "$" and a non-negative decimal written with grouped
\* thousands and a decimal point returns the decimal, and (123.45) gives
\* -123.45
C13_RoundTrip ==
    normalized # None =>
        /\ \A d \in Decimals : raw_value = Txt(Dollars(d)) => normalized[1] = d
        /\ raw_value = Txt("(123.45)") => normalized[1] = Frac(0 - 12345, 100)

\* an amount of a thousand or more with cents has been written with a comma
\* and parsed
C13_Witness ==
    /\ normalized # None
    /\ \E d \in Decimals :
           /\ raw_value = Txt(Dollars(d))
           /\ contains(raw_value.text, ",")
           /\ d.d = 100 /\ d.n > 100000
           /\ normalized[1] = d

\* C14: for a state code of the rate table calculate_tax returns the rate of
\* the state as tax_rate, amount * tax_rate / 100 rounded to cents as
\* tax_amount and a total equal to amount plus the returned tax_amount; for a
\* state code that is not in the table or has rate zero it returns tax_rate 0,
\* tax_amount 0 and total = amount
C14_TaxOfState ==
    (tax_response # None /\ tax_request.state_code \notin {None, Some("")}) =>
        LET code == tax_request.state_code[1]
            amount == tax_request.amount
            result == tax_response[1]
        IN  IF code \in DOMAIN tax_rates_db /\ ~IsZero(tax_rates_db[code])
            THEN /\ result.tax_rate = tax_rates_db[code]
                 /\ result.tax_amount
                        \in round(Over(Times(amount, tax_rates_db[code]), Float(100)))
                 /\ result.total = Plus(amount, result.tax_amount)
            ELSE /\ result.tax_rate = Float(0)
                 /\ result.tax_amount = Float(0)
                 /\ result.total = amount

\* the state codes that stand in the address as tokens of their own, with no
\* letter before or behind them
StateTokens(address) ==
    LET letters == CharSet(Chars(UpperAZ \o LowerAZ))
    IN  {code \in DOMAIN tax_rates_db :
            \E i \in 1..(Len(address) - 1) :
                /\ SubSeq(address, i, i + 1) = code
                /\ (i = 1 \/ SubSeq(address, i - 1, i - 1) \notin letters)
                /\ (i + 1 = Len(address) \/ SubSeq(address, i + 2, i + 2) \notin letters)}

\* C15: calculate_tax called without a state code and with an address that
\* holds a state code as a token of its own returns that state code as state
\* and its rate as tax_rate, whatever other letters the address holds
C15_StateOfAddress ==
    (/\ tax_response # None
     /\ tax_request.state_code = None
     /\ tax_request.client_address # None)
        => \A code \in DOMAIN tax_rates_db :
               StateTokens(tax_request.client_address[1]) = {code} =>
                   /\ tax_response[1].state = Some(code)
                   /\ tax_response[1].tax_rate = tax_rates_db[code]

\* the documents the request number r has inserted
InsertedBy(r) ==
    {u \in database.users : u.id = r} \cup {o \in database.organizations : o.id = r}
        \cup {b \in database.branding : b.organization_id = r}

\* C16: a register request for an email that has a user record is rejected
\* with status 400 and inserts no user, organization or branding; hence after
\* any interleaving of register requests there is at most one user record
\* for an email
C16_OneUserPerEmail ==
    /\ \A r \in DOMAIN registrations :
           registrations[r].status = 400 => InsertedBy(r) = {}
    /\ \A u, v \in database.users : u.email = v.email => u = v

\* the invoice documents stored with the upload_id
StoredOf(u) == {d \in database.invoices : d.upload_id = u}

\* C17: once an upload request has finished, its upload record is COMPLETED
\* or FAILED and never PROCESSING; it is COMPLETED exactly when the parser
\* reported no error and every parsed invoice was persisted, and then
\* invoices_count is the number of invoice documents stored with the upload_id
C17_UploadSettled ==
    \A u \in DOMAIN uploading :
        uploading[u].pc = "done" =>
            \A d \in {x \in database.uploads : x.id = u} :
                /\ d.status \in {"completed", "failed"}
                /\ d.status = "completed" <=>
                       /\ uploading[u].parsed.error = None
                       /\ Cardinality(StoredOf(u)) = Len(uploading[u].parsed.invoices_data)
                /\ d.status = "completed" => d.invoices_count = Cardinality(StoredOf(u))

\* one request has finished with its two invoices stored, another has
\* failed after its first invoice was stored
C17_Witness ==
    \E u, v \in DOMAIN uploading :
        /\ uploading[u].pc = "done" /\ uploading[v].pc = "done"
        /\ \E d \in database.uploads :
               d.id = u /\ d.status = "completed" /\ d.invoices_count = 2
        /\ \E d \in database.uploads : d.id = v /\ d.status = "failed"
        /\ Cardinality(StoredOf(v)) = 1
        /\ uploading[v].parsed.error = None

\* the highest of the scores when it reaches the threshold, 0 when not
Kept(scores, threshold) == IF SetMax(scores) >= threshold THEN SetMax(scores) ELSE 0

\* C18: for a header with no exact vocabulary match best_match takes the
\* edit-distance result (kept from 70), the partial result (kept from 80) and
\* the token-sort result (kept from 75), each computed on its own, and returns
\* the one with the highest score, edit-distance before partial before
\* token-sort on equal scores; when no strategy reaches its threshold it
\* returns no match with confidence 0, and a match never has confidence
\* below 70
C18_BestStrategy ==
    LET stripped == PyStrip(PyLower(Chars(header)))
        targets == get_all_mappings[vocabulary]
        places == 1..Len(targets)
        lev == levenshtein_match(header, targets, 70)
        par == partial_match(header, targets, 80)
        tok == token_sort_match(header, targets, 75)
        highest == Max(lev.score, Max(par.score, tok.score))
    IN  (match # None /\ \A i \in places : stripped # target_lower(targets[i])) =>
            /\ lev.score = Kept({fuzz_ratio(stripped, target_lower(targets[i])) : i \in places}, 70)
            /\ par.score =
                   Kept({fuzz_partial_ratio(stripped, target_lower(targets[i])) : i \in places}, 80)
            /\ tok.score = Kept({token_sort_score(stripped, targets[i]) : i \in places}, 75)
            /\ match[1].score = highest
            /\ highest > 0 =>
                   match[1] = IF lev.score = highest THEN lev
                              ELSE IF par.score = highest THEN par ELSE tok
            /\ highest = 0 => match[1] = NoMatch
            /\ match[1].found => match[1].score >= 70

\* best_match has returned the partial result although the token-sort result
\* for another entry has the same score, and the edit-distance result is lower
C18_Witness ==
    LET targets == get_all_mappings[vocabulary]
        lev == levenshtein_match(header, targets, 70)
        par == partial_match(header, targets, 80)
        tok == token_sort_match(header, targets, 75)
    IN  /\ match # None
        /\ header = "Date Invoice"
        /\ lev.score < par.score /\ par.score = tok.score /\ par.target # tok.target
        /\ match[1] = par

\* the rows of the group that have a description, in order: the rows its
\* line items are made of
DescribedRows(group) == SelectSeq(group.rows, LAMBDA row : HasDescription(group, row))

\* the groups whose line items are in the outcome, when the outcome has an
\* invoice for every group with a described row
ItemGroups ==
    IF Len(Invoices) = Cardinality({g \in 1..Len(invoice_groups) : Described(invoice_groups[g])})
    THEN {g \in 1..Len(invoice_groups) :
             /\ Described(invoice_groups[g])
             /\ Len(Invoices[InvoiceOf(g)].line_items) = Len(DescribedRows(invoice_groups[g]))}
    ELSE {}

\* the field is unassigned, or the cell of its column in the row is blank or
\* holds a text with letters, which is no number
NoNumberIn(group, row, field) ==
    \/ field \notin DOMAIN mapping
    \/ LET cell == row_get(group, row, mapping[field].csv_column)
       IN  \/ isna(cell)
           \/ cell.kind = "str" /\ strip(cell.text) = ""
           \/ cell.kind = "str" /\ CharSet(Chars(cell.text)) \cap CharSet(Chars(LowerAZ)) # {}

\* C19: in every line item the quantity is 1.0 when the quantity field is
\* unassigned or its cell is blank or unparseable, and the rate is 0.0 when
\* the rate field is unassigned or its cell is blank or unparseable
C19_Defaults ==
    \A g \in ItemGroups :
        \A i \in 1..Len(DescribedRows(invoice_groups[g])) :
            LET row == DescribedRows(invoice_groups[g])[i]
                item == Invoices[InvoiceOf(g)].line_items[i]
            IN  /\ NoNumberIn(invoice_groups[g], row, "quantity") => item.quantity = Float(1)
                /\ NoNumberIn(invoice_groups[g], row, "rate") => item.rate = Float(0)

\* C20: the amount of a line item is quantity * rate when the parsed amount
\* is zero or missing and quantity and rate are both above zero, and the
\* parsed amount in every other case, a zero that was written included
C20_DerivedAmount ==
    \A g \in ItemGroups :
        \A i \in 1..Len(DescribedRows(invoice_groups[g])) :
            LET row == DescribedRows(invoice_groups[g])[i]
                item == Invoices[InvoiceOf(g)].line_items[i]
                parsed == get_number_field(invoice_groups[g], row, mapping, "amount", Float(0))
            IN  item.amount = IF IsZero(parsed) /\ Positive(item.quantity) /\ Positive(item.rate)
                              THEN Times(item.quantity, item.rate)
                              ELSE parsed

\* Scenario B: a row with a blank amount, quantity 3 and rate 20 has given a
\* line item of amount 60
C20_Witness ==
    \E g \in ItemGroups :
           \E i \in 1..Len(DescribedRows(invoice_groups[g])) :
               LET row == DescribedRows(invoice_groups[g])[i]
                   item == Invoices[InvoiceOf(g)].line_items[i]
               IN  /\ "amount" \in DOMAIN mapping
                   /\ isna(row_get(invoice_groups[g], row, mapping["amount"].csv_column))
                   /\ item.quantity = Float(3) /\ item.rate = Float(20)
                   /\ item.amount = Float(60)

\* the tax amount and the tax rate parse_number reads from the first row of
\* the group, 0.0 for a field that is unassigned
ParsedTax(group, field) == get_number_field(group, group.rows[1], mapping, field, Float(0))

\* C21: with the tax values of the first row of its group, a record whose
\* parsed tax_amount is above zero, whose parsed tax_rate is zero or absent and
\* whose subtotal is above zero has tax_rate = tax_amount / subtotal * 100 and
\* the tax_amount as parsed; otherwise a record whose parsed tax_rate is above
\* zero and whose parsed tax_amount is zero or absent has tax_amount =
\* subtotal * tax_rate / 100 and the tax_rate as parsed; in every other case
\* both values are as parsed
C21_TaxReconciled ==
    \A g \in ItemGroups :
        LET invoice == Invoices[InvoiceOf(g)]
            amount == ParsedTax(invoice_groups[g], "tax_amount")
            rate == ParsedTax(invoice_groups[g], "tax_rate")
        IN  IF amount.n > 0 /\ rate.n = 0 /\ invoice.subtotal.n > 0
            THEN /\ invoice.tax_rate = Times(Over(amount, invoice.subtotal), Float(100))
                 /\ invoice.tax_amount = amount
            ELSE IF rate.n > 0 /\ amount.n = 0
            THEN /\ invoice.tax_amount = Over(Times(invoice.subtotal, rate), Float(100))
                 /\ invoice.tax_rate = rate
            ELSE invoice.tax_amount = amount /\ invoice.tax_rate = rate

\* Scenario C: a first row with the tax amount 8 and no tax rate, and a
\* subtotal of 100, has given a record with the tax rate 8
C21_Witness ==
    \E g \in ItemGroups :
        /\ "tax_rate" \in DOMAIN mapping /\ "tax_amount" \in DOMAIN mapping
        /\ ParsedTax(invoice_groups[g], "tax_amount") = Float(8)
        /\ isna(row_get(invoice_groups[g], invoice_groups[g].rows[1],
                        mapping["tax_rate"].csv_column))
        /\ Invoices[InvoiceOf(g)].subtotal = Float(100)
        /\ Invoices[InvoiceOf(g)].tax_rate = Float(8)
        /\ Invoices[InvoiceOf(g)].tax_amount = Float(8)

\* C22: every line item of every invoice of an outcome has a quantity, a
\* rate and an amount that are not below zero, whatever the cells hold
\* (numbers in parentheses or with a minus sign included)
C22_NonNegative ==
    \A k \in 1..Len(Invoices) :
        \A i \in 1..Len(Invoices[k].line_items) :
            /\ Invoices[k].line_items[i].quantity.n >= 0
            /\ Invoices[k].line_items[i].rate.n >= 0
            /\ Invoices[k].line_items[i].amount.n >= 0

\* the field is unassigned, or the cell of its column in the first row of the
\* group is empty
EmptyInFirstRow(group, field) ==
    \/ field \notin DOMAIN mapping
    \/ LET cell == row_get(group, group.rows[1], mapping[field].csv_column)
       IN  isna(cell) \/ (cell.kind = "str" /\ cell.text = "")

\* the text of the cell of the field in the first row of the group
FirstRowText(group, field) ==
    strip(str(row_get(group, group.rows[1], mapping[field].csv_column)))

\* C23: the header fields of a record are read from the first row of its
\* group only, and a field that is unassigned or empty in that row takes its
\* default: invoice_number is INV- and the timestamp of the processing time,
\* invoice_date is the processing time, client_name is the placeholder, and
\* due_date, client_email, client_address, terms, notes, po_number, currency
\* and status are absent
C23_HeaderDefaults ==
    \A g \in ItemGroups :
        LET group == invoice_groups[g]
            invoice == Invoices[InvoiceOf(g)]
        IN  /\ IF EmptyInFirstRow(group, "invoice_number")
               THEN \E t \in 0..MaxClock : invoice.invoice_number = Some("INV-" \o strftime_now(t))
               ELSE invoice.invoice_number = Some(FirstRowText(group, "invoice_number"))
            /\ EmptyInFirstRow(group, "invoice_date") =>
                   \E t \in 0..MaxClock : invoice.invoice_date = Some(datetime_now(t))
            /\ IF EmptyInFirstRow(group, "client_name")
               THEN invoice.client_name = Some("Unknown Client")
               ELSE invoice.client_name = Some(FirstRowText(group, "client_name"))
            /\ EmptyInFirstRow(group, "due_date") => invoice.due_date = None
            /\ \A field \in {"client_email", "client_address", "terms", "notes", "po_number",
                              "currency", "status"} :
                   invoice[field] = IF EmptyInFirstRow(group, field) THEN None
                                    ELSE Some(FirstRowText(group, field))

\* C24: the metadata of every outcome with invoices counts the rows and the
\* column headers of the table that was read, whichever fields are mapped, and
\* the table has no column after the run that it did not have before
C24_Counts ==
    (outcome # None /\ outcome[1].error = None /\ outcome[1].raised = None) =>
        /\ outcome[1].metadata.total_rows = Len(file.rows)
        /\ outcome[1].metadata.total_columns = Len(file.columns)
        /\ df.columns = file.columns

\* the place in the table of the first row of the group
FirstLabel(group) == group.rows[1].label

\* C25: the invoices of an outcome are in the order their groups are come
\* upon in the table: one invoice stands before another exactly when the first
\* row of its group stands in the table before the first row of the other's
\* group, whatever the invoice numbers are; and the line items of an invoice
\* are in the order of their rows in the table
C25_DiscoveryOrder ==
    /\ \A g, h \in ItemGroups :
           InvoiceOf(g) < InvoiceOf(h) <=>
               FirstLabel(invoice_groups[g]) < FirstLabel(invoice_groups[h])
    /\ \A g \in ItemGroups :
           LET rows == DescribedRows(invoice_groups[g])
               items == Invoices[InvoiceOf(g)].line_items
           IN  /\ \A i, j \in 1..Len(rows) : i < j => rows[i].label < rows[j].label
               /\ \A i \in 1..Len(rows) :
                      items[i].description =
                          strip(str(row_get(invoice_groups[g], rows[i],
                                            mapping["description"].csv_column)))

\* the mapping the call returns when no other call runs on the parser
AloneMapping(cols) == detect_column_mapping([used_columns |-> {}], cols).mapping

\* C26: calls of detect_column_mapping that run on one parser with the passes
\* of their outer loops interleaved share no state: each returns the mapping
\* it returns when it runs alone, and in the mapping it returns no column is
\* assigned to two fields
C26_Isolated ==
    \A c \in DOMAIN detecting :
        returned(detecting[c]) =>
            /\ detecting[c].mapping = AloneMapping(detecting[c].df_columns)
            /\ \A f, g \in DOMAIN detecting[c].mapping :
                   f # g => detecting[c].mapping[f].csv_column # detecting[c].mapping[g].csv_column

\* C27: an upload for which the parser returned a diagnostic ends with its
\* upload record FAILED and the diagnostic as error_message, with the status
\* 400 and with no invoice stored; the status 500 is given only to uploads
\* for which the parser returned no diagnostic
C27_ParserDiagnostic ==
    \A u \in DOMAIN uploading :
        (uploading[u].pc = "done" /\ uploading[u].organization /\ uploading[u].supported) =>
            /\ uploading[u].parsed.error # None =>
                   /\ \A d \in {x \in database.uploads : x.id = u} :
                          d.status = "failed" /\ d.error_message = uploading[u].parsed.error
                   /\ uploading[u].status = 400
                   /\ StoredOf(u) = {}
            /\ uploading[u].status = 500 => uploading[u].parsed.error = None

\* C28: with invoice_number and invoice_date mapped, two rows whose invoice
\* numbers are not blank and differ are never in one group, whatever
\* characters ('_' included) their invoice-number and invoice-date cells hold
C28_KeyInjective ==
    ("invoice_number" \in DOMAIN mapping /\ "invoice_date" \in DOMAIN mapping) =>
        \A i, j \in 1..Len(df.rows) :
            (/\ ~BlankNumber(df.rows[i]) /\ ~BlankNumber(df.rows[j])
             /\ NumberCell(df.rows[i]) # NumberCell(df.rows[j])) =>
                GroupsOf(df.rows[i].label) \cap GroupsOf(df.rows[j].label) = {}

\* C29: the mapping CSVParser.detect_column_mapping of csv_parser.py returns
\* never gives one source column to two standard fields: a header Description
\* is not mapped to description and to notes, nor a header Amount to quantity
\* and to amount
C29_CSVParserNoColumnReused ==
    \A f, g \in DOMAIN mapping : f # g => mapping[f] # mapping[g]

\* C30: a run of parse_csv that assigns a field and leaves description
\* unassigned returns no invoice and the failure "No valid invoices found in
\* file", whatever quantities, rates and amounts the rows carry
C30_NoDescriptionNoInvoice ==
    (outcome # None /\ DOMAIN mapping # {} /\ "description" \notin DOMAIN mapping) =>
        /\ outcome[1].invoices = <<>>
        /\ outcome[1].error = Some("No valid invoices found in file")
        /\ outcome[1].raised = None

\* a run on a table without description column whose first row has an amount
\* above zero in the column assigned to amount or to quantity
C30_Witness ==
    /\ outcome # None
    /\ "description" \notin DOMAIN mapping
    /\ df.rows # <<>>
    /\ \E field \in {"amount", "quantity"} \cap DOMAIN mapping :
           Positive(get_number_field(df, df.rows[1], mapping, field, Float(0)))
    /\ outcome[1].error = Some("No valid invoices found in file")

====
